---- MODULE Spec2Model ----
(***************************************************************************)
(* A model of the zeno path rasterizer (dfrg/zeno): the scan-conversion    *)
(* rasterizer and its cell storage (raster.rs), the coverage conversion,   *)
(* the SVG path parser (svg_parser.rs), the command / points+verbs         *)
(* representations (command.rs), the segment iterator (segment.rs), the    *)
(* traversal helpers (traversal.rs), the mask builder (mask.rs) and the    *)
(* dasher (stroke.rs).                                                     *)
(*                                                                         *)
(* Each subsystem has its own variables, initial predicate and next-state  *)
(* relation; a specification SpecX runs one subsystem and keeps the others *)
(* in their idle state.                                                    *)
(***************************************************************************)
EXTENDS Integers, Sequences, FiniteSets, TLC

VARIABLES
    \* ---- rasterizer (raster.rs) ----
    ras,        \* the Rasterizer's fields, with the HeapStorage it borrows
    buffer,     \* the output buffer of the current / last rasterize call
    rasPc,      \* "idle": between calls; "apply": inside the apply callback
    rasArgs,    \* the arguments of the current / last rasterize call
    rasCmds,    \* the builder calls the apply callback has made in this call
    rasCalls,   \* number of rasterize calls started on this Rasterizer
    \* ---- coverage (raster.rs) ----
    covIn,      \* the accumulated coverage value handed to coverage()
    covOut,     \* the bytes coverage() returned for it, per fill rule
    \* ---- SVG validation (svg_parser.rs) ----
    svg,        \* the SvgCommands iterator validate_svg drives
    svgOut,     \* the kinds of the commands it has yielded
    svgRes,     \* <<>> while it runs, then <<"Ok">> or <<"Err", offset>>
    \* ---- points and verbs (command.rs) ----
    pcCmds,     \* the command list the caller starts from
    pcPoints,   \* the points array built from it
    pcVerbs,    \* the verbs array built from it
    pcPc,       \* "new", then how the verbs were built: "verb" or "tags"
    pcIt,       \* the PointsCommands iterator being looped over
    pcYield,    \* the commands the loop has received, and whether it ended
    pcSink,     \* the calls copy_to made on the sink, and whether it ran
    \* ---- vertices (traversal.rs, segment.rs) ----
    vtx,        \* the Vertices iterator, with the Segments iterator it owns
    vtxOut,     \* the vertices it has yielded
    vtxDone,    \* whether next() has returned None
    \* ---- walk (traversal.rs, segment.rs) ----
    walkA,      \* the Walk stepped by d1 and then d2: steps made, last result
    walkB,      \* the Walk over the same path stepped once by d1 + d2
    walkD,      \* the distances <<d1, d2>>
    \* ---- mask builder (mask.rs) ----
    mask,       \* the Mask builder's fields
    maskBounds, \* the bounds of its path data
    maskCalls,  \* the builder calls made so far
    maskOut,    \* <<>>, or the rendering call made and what placement() gave it
    \* ---- stroke.rs: stroke_into with a dash array ----
    stroke,     \* one stroke_into call: its arguments, the Stroker, the Dasher, the sink
    oddA,       \* a stroke_into call whose dash array has odd length
    oddB,       \* the same call with the dash array written twice
    \* ---- cell storage (raster.rs): HeapStorage beside AdaptiveStorage ----
    store,      \* a HeapStorage and an AdaptiveStorage given the same calls, and the calls
    \* ---- segment.rs: Segments with and without curve splitting ----
    iters,      \* a splitting and a plain Segments iterator over one path, and what each has yielded
    \* ---- stroke.rs: the joins of one contour ----
    joiner,     \* the contour, the pass that is running and the joins sent to the sink
    \* ---- segment.rs: the max-curvature solver ----
    solver,     \* the clamped candidates, the roots solve returned and the cuts made of them
    \* ---- raster.rs: quad_to and curve_to ----
    subdiv,     \* one quad_to or curve_to call: the subdivision array, its index and the Rasterizer
    \* ---- stroke.rs: the calls one contour makes on the sink ----
    contour,    \* one stroke_segments or dash_segments call: its arguments and the calls it made on the sink
    \* ---- raster.rs: one line_to call ----
    cellwalk,   \* one line_to call: the Rasterizer, the locals of line_to and where the call stands
    \* ---- stroke.rs: the Dasher::next calls of one subpath ----
    dashing,    \* the run of the inner loop of Stroker::dash
    \* ---- svg_parser.rs: the commands of a source, with their points ----
    svgPts,     \* the parser, its last two yields and whether it has ended
    \* ---- which subsystem this behaviour exercises ----
    sys

rasVars == <<ras, buffer, rasPc, rasArgs, rasCmds, rasCalls>>
covVars == <<covIn, covOut>>
svgVars == <<svg, svgOut, svgRes>>
pcVars == <<pcCmds, pcPoints, pcVerbs, pcPc, pcIt, pcYield, pcSink>>
vtxVars == <<vtx, vtxOut, vtxDone>>
walkVars == <<walkA, walkB, walkD>>
maskVars == <<mask, maskBounds, maskCalls, maskOut>>
strokeVars == <<stroke>>
oddVars == <<oddA, oddB>>
storeVars == <<store>>
segVars == <<iters>>
joinVars == <<joiner>>
solveVars == <<solver>>
curveVars == <<subdiv>>
contourVars == <<contour>>
cellVars == <<cellwalk>>
dashingVars == <<dashing>>
svgPtsVars == <<svgPts>>

vars == <<sys, rasVars, covVars, svgVars, pcVars, vtxVars, walkVars, maskVars, strokeVars, oddVars, storeVars, segVars, joinVars, solveVars, curveVars, contourVars, cellVars, dashingVars, svgPtsVars>>

\* The variables of the other subsystems, which an action leaves alone.
nonRasVars == <<sys, covVars, svgVars, pcVars, vtxVars, walkVars, maskVars, strokeVars, oddVars, storeVars, segVars, joinVars, solveVars, curveVars, contourVars, cellVars, dashingVars, svgPtsVars>>
nonCovVars == <<sys, rasVars, svgVars, pcVars, vtxVars, walkVars, maskVars, strokeVars, oddVars, storeVars, segVars, joinVars, solveVars, curveVars, contourVars, cellVars, dashingVars, svgPtsVars>>
nonSvgVars == <<sys, rasVars, covVars, pcVars, vtxVars, walkVars, maskVars, strokeVars, oddVars, storeVars, segVars, joinVars, solveVars, curveVars, contourVars, cellVars, dashingVars, svgPtsVars>>
nonPcVars == <<sys, rasVars, covVars, svgVars, vtxVars, walkVars, maskVars, strokeVars, oddVars, storeVars, segVars, joinVars, solveVars, curveVars, contourVars, cellVars, dashingVars, svgPtsVars>>
nonVtxVars == <<sys, rasVars, covVars, svgVars, pcVars, walkVars, maskVars, strokeVars, oddVars, storeVars, segVars, joinVars, solveVars, curveVars, contourVars, cellVars, dashingVars, svgPtsVars>>
nonWalkVars == <<sys, rasVars, covVars, svgVars, pcVars, vtxVars, maskVars, strokeVars, oddVars, storeVars, segVars, joinVars, solveVars, curveVars, contourVars, cellVars, dashingVars, svgPtsVars>>
nonMaskVars == <<sys, rasVars, covVars, svgVars, pcVars, vtxVars, walkVars, strokeVars, oddVars, storeVars, segVars, joinVars, solveVars, curveVars, contourVars, cellVars, dashingVars, svgPtsVars>>
nonStrokeVars == <<sys, rasVars, covVars, svgVars, pcVars, vtxVars, walkVars, maskVars, oddVars, storeVars, segVars, joinVars, solveVars, curveVars, contourVars, cellVars, dashingVars, svgPtsVars>>
nonOddVars == <<sys, rasVars, covVars, svgVars, pcVars, vtxVars, walkVars, maskVars, strokeVars, storeVars, segVars, joinVars, solveVars, curveVars, contourVars, cellVars, dashingVars, svgPtsVars>>
nonStoreVars == <<sys, rasVars, covVars, svgVars, pcVars, vtxVars, walkVars, maskVars, strokeVars, oddVars, segVars, joinVars, solveVars, curveVars, contourVars, cellVars, dashingVars, svgPtsVars>>
nonSegVars == <<sys, rasVars, covVars, svgVars, pcVars, vtxVars, walkVars, maskVars, strokeVars, oddVars, storeVars, joinVars, solveVars, curveVars, contourVars, cellVars, dashingVars, svgPtsVars>>
nonJoinVars == <<sys, rasVars, covVars, svgVars, pcVars, vtxVars, walkVars, maskVars, strokeVars, oddVars, storeVars, segVars, solveVars, curveVars, contourVars, cellVars, dashingVars, svgPtsVars>>
nonSolveVars == <<sys, rasVars, covVars, svgVars, pcVars, vtxVars, walkVars, maskVars, strokeVars, oddVars, storeVars, segVars, joinVars, curveVars, contourVars, cellVars, dashingVars, svgPtsVars>>
nonCurveVars == <<sys, rasVars, covVars, svgVars, pcVars, vtxVars, walkVars, maskVars, strokeVars, oddVars, storeVars, segVars, joinVars, solveVars, contourVars, cellVars, dashingVars, svgPtsVars>>
nonContourVars == <<sys, rasVars, covVars, svgVars, pcVars, vtxVars, walkVars, maskVars, strokeVars, oddVars, storeVars, segVars, joinVars, solveVars, curveVars, cellVars, dashingVars, svgPtsVars>>
nonCellVars == <<sys, rasVars, covVars, svgVars, pcVars, vtxVars, walkVars, maskVars, strokeVars, oddVars, storeVars, segVars, joinVars, solveVars, curveVars, contourVars, dashingVars, svgPtsVars>>
nonDashingVars == <<sys, rasVars, covVars, svgVars, pcVars, vtxVars, walkVars, maskVars, strokeVars, oddVars, storeVars, segVars, joinVars, solveVars, curveVars, contourVars, cellVars, svgPtsVars>>
nonSvgPtsVars == <<sys, rasVars, covVars, svgVars, pcVars, vtxVars, walkVars, maskVars, strokeVars, oddVars, storeVars, segVars, joinVars, solveVars, curveVars, contourVars, cellVars, dashingVars>>

(***************************************************************************)
(* Bounds of the model.                                                    *)
(***************************************************************************)
MaxRasCalls == 2      \* rasterize calls made on one reused Rasterizer
MaxRasCmds == 3       \* builder calls the apply callback makes per call
MaxRasDim == 2        \* largest width / height of a target
NearCells == 3        \* cells across which the short lines of line_to run
MaxTermLen == 4       \* longest dash array of the runs of Dasher::next
MaxDashSteps == 64    \* Dasher::next calls the model follows of one run
MaxSmoothCmds == 3    \* commands of a source parsed with its points
MaxCovExtra == 1024   \* coverage inputs checked beyond 2*ONE_PIXEL*ONE_PIXEL
MaxSvgLen == 4        \* longest path data string handed to validate_svg
MaxPcCmds == 4        \* longest command list turned into points and verbs
MaxPcDrop == 3        \* most points the points array may fall short by
MaxVtxCmds == 4       \* longest command list handed to Vertices
MaxWalkCmds == 3      \* longest command list handed to Walk
MaxWalkDist == 6      \* largest distance of one step
MaxMaskCalls == 3     \* builder calls made on a Mask before it is rendered
MaxDashCmds == 2      \* longest stroked path drawn from DashCommands
MaxDashLen == 4       \* longest dash array of a stroke style
MaxOddLen == 3        \* longest dash array of odd length
MaxWrapCmds == 3      \* longest path dashed with an offset
MaxWrapLen == 2       \* longest dash array used with an offset
MaxStoreResets == 2   \* reset calls made on the two storages
MaxSegCmds == 4       \* longest path given to the two Segments iterators
MaxSegLong == 520     \* commands of the path on which the ids wrap
MaxRoot == 4          \* the clamped candidates of solve, in quarters of 1
MaxStoreSets == 2     \* set calls made one at a time on the two storages

(***************************************************************************)
(* Integer helpers: Rust's i32 semantics.                                  *)
(***************************************************************************)
I32_MAX == 2147483647
I32_MIN == (-2147483647) - 1

Abs(x) == IF x < 0 THEN -x ELSE x

\* Rust's `/` on integers truncates toward zero.
TruncDiv(a, b) ==
    LET q == Abs(a) \div Abs(b)
    IN  IF (a < 0) = (b < 0) THEN q ELSE -q

\* i32::wrapping_add
WrappingAdd(a, b) ==
    IF a > 0 /\ b > I32_MAX - a
    THEN ((a - I32_MAX) - 1) + ((b - I32_MAX) - 1)
    ELSE IF a < 0 /\ b < I32_MIN - a
    THEN ((a + I32_MAX) + 1) + ((b + I32_MAX) + 1)
    ELSE a + b

\* i32::wrapping_sub
WrappingSub(a, b) ==
    IF b = I32_MIN
    THEN WrappingAdd(WrappingAdd(a, I32_MAX), 1)
    ELSE WrappingAdd(a, -b)

\* i32::wrapping_mul by 2^k (k < 31): the low 32 bits of a * 2^k, signed.
WrappingShl(a, k) ==
    LET m == 2 ^ (31 - k)           \* a's bits above 2m are shifted out
        lo == a % (2 * m)
    IN  IF lo >= m THEN (lo - 2 * m) * (2 ^ k) ELSE lo * (2 ^ k)

(***************************************************************************)
(* raster.rs: fixed point.                                                 *)
(***************************************************************************)
PIXEL_BITS == 8
ONE_PIXEL == 2 ^ PIXEL_BITS

\* x >> PIXEL_BITS (arithmetic shift: floor)
trunc(x) == x \div ONE_PIXEL

\* x & (ONE_PIXEL - 1)
fract(x) == x % ONE_PIXEL

FixedPoint(x, y) == [x |-> x, y |-> y]

(***************************************************************************)
(* raster.rs: coverage to alpha.                                           *)
(***************************************************************************)
Fills == {"NonZero", "EvenOdd"}

coverage_mirror_off_by_one(fill, c0) ==
    LET c == c0 \div (2 ^ (PIXEL_BITS * 2 + 1 - 8))
    IN  IF fill = "EvenOdd"
        THEN LET m == c % 512
             IN  (IF m >= 256 THEN 512 - m ELSE m) % 256
        ELSE LET a == IF c < 0 THEN (-c) - 1 ELSE c
             IN  (IF a >= 256 THEN 255 ELSE a) % 256

\* coverage with `-coverage` in place of `!coverage`
coverage_negated(fill, c0) ==
    LET c == c0 \div (2 ^ (PIXEL_BITS * 2 + 1 - 8))
    IN  IF fill = "EvenOdd"
        THEN LET m == c % 512
             IN  (IF m >= 256 THEN 511 - m ELSE m) % 256
        ELSE LET a == IF c < 0 THEN -c ELSE c
             IN  (IF a >= 256 THEN 255 ELSE a) % 256

coverage(fill, c0) ==
    LET c == c0 \div (2 ^ (PIXEL_BITS * 2 + 1 - 8))    \* coverage >>= 9
    IN  IF fill = "EvenOdd"
        THEN LET m == c % 512                           \* coverage &= 511
             IN  (IF m >= 256 THEN 511 - m ELSE m) % 256
        ELSE LET a == IF c < 0 THEN (-c) - 1 ELSE c     \* !coverage
             IN  (IF a >= 256 THEN 255 ELSE a) % 256    \* as u8

(***************************************************************************)
(* raster.rs: HeapStorage.  cells and indices are 0-based in the source;  *)
(* element k of a Vec is element k + 1 of the sequence here.               *)
(***************************************************************************)
Cell(x, cover, area, next) == [x |-> x, cover |-> cover, area |-> area, next |-> next]

\* HeapStorage::default()
HeapStorageNew ==
    [min |-> FixedPoint(0, 0), max |-> FixedPoint(0, 0), cells |-> <<>>, indices |-> <<>>]

HeapStorage_reset_keeps_cells(s, min, max) ==
    [s EXCEPT !.min = min, !.max = max,
              !.indices = [i \in 1..(max.y - min.y) |->
                              IF i <= Len(s.indices) THEN s.indices[i] ELSE -1]]

HeapStorage_reset(s, min, max) ==
    [s EXCEPT !.min = min, !.max = max,
              !.cells = <<>>,
              !.indices = [i \in 1..(max.y - min.y) |-> -1]]

\* The list walk without the test for the cell itself: a second
\* contribution at (x, y) is linked in as a cell of its own.
RECURSIVE HeapStorage_find_no_merge(_, _, _, _)
HeapStorage_find_no_merge(cells, x, cell_index, last_index) ==
    IF cell_index = -1
    THEN [hit |-> FALSE, cell_index |-> cell_index, last_index |-> last_index]
    ELSE LET cell == cells[cell_index + 1]
         IN  IF cell.x > x
             THEN [hit |-> FALSE, cell_index |-> cell_index, last_index |-> last_index]
             ELSE HeapStorage_find_no_merge(cells, x, cell.next, cell_index)

\* The list walk of HeapStorage::set: stops at the first cell with
\* cell.x >= x, remembering the cell before it.
RECURSIVE HeapStorage_find(_, _, _, _)
HeapStorage_find(cells, x, cell_index, last_index) ==
    IF cell_index = -1
    THEN [hit |-> FALSE, cell_index |-> cell_index, last_index |-> last_index]
    ELSE LET cell == cells[cell_index + 1]
         IN  IF cell.x > x
             THEN [hit |-> FALSE, cell_index |-> cell_index, last_index |-> last_index]
             ELSE IF cell.x = x
             THEN [hit |-> TRUE, cell_index |-> cell_index, last_index |-> last_index]
             ELSE HeapStorage_find(cells, x, cell.next, cell_index)

HeapStorage_set(s, x, y, area, cover) ==
    LET yindex == y - s.min.y
        f == HeapStorage_find(s.cells, x, s.indices[yindex + 1], -1)
    IN  IF f.hit
        THEN [s EXCEPT !.cells[f.cell_index + 1].area = WrappingAdd(@, area),
                       !.cells[f.cell_index + 1].cover = WrappingAdd(@, cover)]
        ELSE LET new_index == Len(s.cells)
                 cell == Cell(x, cover, area, f.cell_index)
                 linked == IF f.last_index # -1
                           THEN [s EXCEPT !.cells[f.last_index + 1].next = new_index]
                           ELSE [s EXCEPT !.indices[yindex + 1] = new_index]
             IN  [linked EXCEPT !.cells = Append(@, cell)]

(***************************************************************************)
(* raster.rs: Rasterizer.  Points reach the rasterizer as FixedPoints: the *)
(* builder methods convert `to + shift` with to_fixed before anything      *)
(* else, so the commands of the model carry the converted coordinates.     *)
(***************************************************************************)
\* Rasterizer::new
Rasterizer_new(storage) ==
    [storage |-> storage,
     xmin |-> 0, xmax |-> 0, ymin |-> 0, ymax |-> 0, height |-> 0,
     start |-> FixedPoint(0, 0), closed |-> FALSE,
     x |-> 0, y |-> 0, px |-> 0, py |-> 0,
     cover |-> 0, area |-> 0, invalid |-> FALSE]

\* set_cell without the test against xmax
set_cell_unclipped_right(r, x, y) ==
    LET r1 == IF ~r.invalid /\ (r.area # 0 \/ r.cover # 0)
              THEN [r EXCEPT !.storage = HeapStorage_set(r.storage, r.x, r.y, r.area, r.cover)]
              ELSE r
    IN  [r1 EXCEPT !.area = 0,
                   !.cover = 0,
                   !.x = IF x > r.xmin - 1 THEN x ELSE r.xmin - 1,
                   !.y = y,
                   !.invalid = (y >= r.ymax \/ y < r.ymin)]

set_cell(r, x, y) ==
    LET r1 == IF ~r.invalid /\ (r.area # 0 \/ r.cover # 0)
              THEN [r EXCEPT !.storage = HeapStorage_set(r.storage, r.x, r.y, r.area, r.cover)]
              ELSE r
    IN  [r1 EXCEPT !.area = 0,
                   !.cover = 0,
                   !.x = IF x > r.xmin - 1 THEN x ELSE r.xmin - 1,
                   !.y = y,
                   !.invalid = (y >= r.ymax \/ y < r.ymin \/ x >= r.xmax)]

\* Rasterizer::move_to (the private one, on a FixedPoint)
ras_move_to(r, to) ==
    [set_cell(r, trunc(to.x), trunc(to.y)) EXCEPT !.px = to.x, !.py = to.y]

\* udiv of line_to: ((a as u64 * b as u64) >> 24) as i32, which is
\* floor(a * b / 2^24) in 32 bits; computed in two halves of b to stay
\* inside the checker's integers.
udiv(a, b) ==
    LET bh == b \div 4096
        bl == b % 4096
    IN  ((a * bh) + ((a * bl) \div 4096)) \div 4096

\* One cell accumulation: self.cover += fy2 - fy1; self.area += (fy2 - fy1) * m
Accumulate(r, fy1, fy2, m) ==
    [r EXCEPT !.cover = @ + (fy2 - fy1), !.area = @ + (fy2 - fy1) * m]

\* line_to, dx == 0: the vertical walk, one cell per step.
RECURSIVE line_to_vertical(_, _, _, _, _, _, _)
line_to_vertical(r, ex1, ey1, ey2, fx1, fy1, up) ==
    LET fy2 == IF up THEN ONE_PIXEL ELSE 0
        ey == IF up THEN ey1 + 1 ELSE ey1 - 1
        r1 == set_cell(Accumulate(r, fy1, fy2, fx1 * 2), ex1, ey)
        nfy1 == IF up THEN 0 ELSE ONE_PIXEL
    IN  IF ey = ey2
        THEN [r |-> r1, fx1 |-> fx1, fy1 |-> nfy1]
        ELSE line_to_vertical(r1, ex1, ey, ey2, fx1, nfy1, up)

\* line_to, the general walk: which of the four cell edges the line leaves
\* through is decided by the sign of the running cross product.
RECURSIVE line_to_walk(_, _, _, _, _, _, _, _, _, _, _, _)
line_to_walk(r, ex1, ey1, ex2, ey2, fx1, fy1, dx, dy, dx_r, dy_r, prod) ==
    LET left == prod <= 0 /\ prod - dx * ONE_PIXEL > 0
        up == prod - dx * ONE_PIXEL <= 0 /\ prod - dx * ONE_PIXEL + dy * ONE_PIXEL > 0
        right == prod - dx * ONE_PIXEL + dy * ONE_PIXEL <= 0 /\ prod + dy * ONE_PIXEL >= 0
        s == IF left
             THEN LET fy2 == udiv(-prod, -dx_r)
                  IN  [r |-> Accumulate(r, fy1, fy2, fx1 + 0),
                       prod |-> prod - dy * ONE_PIXEL,
                       fx1 |-> ONE_PIXEL, fy1 |-> fy2, ex1 |-> ex1 - 1, ey1 |-> ey1]
             ELSE IF up
             THEN LET p == prod - dx * ONE_PIXEL
                      fx2 == udiv(-p, dy_r)
                  IN  [r |-> Accumulate(r, fy1, ONE_PIXEL, fx1 + fx2),
                       prod |-> p,
                       fx1 |-> fx2, fy1 |-> 0, ex1 |-> ex1, ey1 |-> ey1 + 1]
             ELSE IF right
             THEN LET p == prod + dy * ONE_PIXEL
                      fy2 == udiv(p, dx_r)
                  IN  [r |-> Accumulate(r, fy1, fy2, fx1 + ONE_PIXEL),
                       prod |-> p,
                       fx1 |-> 0, fy1 |-> fy2, ex1 |-> ex1 + 1, ey1 |-> ey1]
             ELSE LET fx2 == udiv(prod, -dy_r)
                  IN  [r |-> Accumulate(r, fy1, 0, fx1 + fx2),
                       prod |-> prod + dx * ONE_PIXEL,
                       fx1 |-> fx2, fy1 |-> ONE_PIXEL, ex1 |-> ex1, ey1 |-> ey1 - 1]
        r1 == set_cell(s.r, s.ex1, s.ey1)
    IN  IF s.ex1 = ex2 /\ s.ey1 = ey2
        THEN [r |-> r1, fx1 |-> s.fx1, fy1 |-> s.fy1]
        ELSE line_to_walk(r1, s.ex1, s.ey1, ex2, ey2, s.fx1, s.fy1, dx, dy, dx_r, dy_r, s.prod)

\* Rasterizer::line_to (the private one, on a FixedPoint)
ras_line_to(r, to) ==
    LET ey1 == trunc(r.py)
        ey2 == trunc(to.y)
        ex1 == trunc(r.px)
        ex2 == trunc(to.x)
        fx1 == fract(r.px)
        fy1 == fract(r.py)
        dx == to.x - r.px
        dy == to.y - r.py
        moved == [r EXCEPT !.px = to.x, !.py = to.y]
        finish(w) ==
            [Accumulate(w.r, w.fy1, fract(to.y), w.fx1 + fract(to.x))
                EXCEPT !.px = to.x, !.py = to.y]
    IN  IF (ey1 >= r.ymax /\ ey2 >= r.ymax) \/ (ey1 < r.ymin /\ ey2 < r.ymin)
        THEN moved
        ELSE IF ex1 = ex2 /\ ey1 = ey2
        THEN finish([r |-> r, fx1 |-> fx1, fy1 |-> fy1])
        ELSE IF dy = 0
        THEN [set_cell(r, ex2, ey2) EXCEPT !.px = to.x, !.py = to.y]
        ELSE IF dx = 0
        THEN finish(line_to_vertical(r, ex1, ey1, ey2, fx1, fy1, dy > 0))
        ELSE LET prod == dx * fy1 - dy * fx1
                 dx_r == IF ex1 # ex2 THEN TruncDiv(16777215, dx) ELSE 0
                 dy_r == IF ey1 # ey2 THEN TruncDiv(16777215, dy) ELSE 0
             IN  finish(line_to_walk(r, ex1, ey1, ex2, ey2, fx1, fy1, dx, dy, dx_r, dy_r, prod))

(***************************************************************************)
(* raster.rs: impl PathBuilder for Rasterizer.                             *)
(***************************************************************************)
\* PathBuilder::move_to without the line back to the start
Rasterizer_move_to_open(r, p) ==
    [ras_move_to(r, p) EXCEPT !.closed = FALSE, !.start = p]

\* PathBuilder::move_to
Rasterizer_move_to(r, p) ==
    LET r1 == IF ~r.closed THEN ras_line_to(r, r.start) ELSE r
    IN  [ras_move_to(r1, p) EXCEPT !.closed = FALSE, !.start = p]

\* PathBuilder::line_to
Rasterizer_line_to(r, p) ==
    ras_line_to([r EXCEPT !.closed = FALSE], p)

\* PathBuilder::close
Rasterizer_close(r) ==
    [ras_line_to(r, r.start) EXCEPT !.closed = TRUE]

\* One builder call, as the apply callback makes it.
Deliver(r, cmd) ==
    CASE cmd.op = "MoveTo" -> Rasterizer_move_to(r, cmd.to)
      [] cmd.op = "LineTo" -> Rasterizer_line_to(r, cmd.to)
      [] cmd.op = "Close" -> Rasterizer_close(r)

(***************************************************************************)
(* raster.rs: Rasterizer::rasterize, before and after the apply callback.  *)
(***************************************************************************)
\* rasterize, lines 85-102: everything up to `apply(self)`
rasterize_begin(r, w, h) ==
    [r EXCEPT !.storage = HeapStorage_reset(r.storage, FixedPoint(0, 0), FixedPoint(w, h)),
              !.start = FixedPoint(0, 0), !.closed = TRUE,
              !.xmin = 0, !.ymin = 0, !.xmax = w, !.ymax = h, !.height = h,
              !.x = 0, !.y = 0, !.px = 0, !.py = 0,
              !.invalid = TRUE]

\* rasterize, lines 104-109: the implicit close and the last cell
rasterize_flush(r) ==
    LET r1 == IF ~r.closed THEN ras_line_to(r, r.start) ELSE r
    IN  IF ~r1.invalid
        THEN [r1 EXCEPT !.storage = HeapStorage_set(r1.storage, r1.x, r1.y, r1.area, r1.cover)]
        ELSE r1

\* A write of the row loop: `count` bytes of value c from column xi of the
\* row that starts at row_offset (the callback of rasterize_write).
Write(row_offset, xi, count, c) ==
    [row_offset |-> row_offset, xi |-> xi, count |-> count, c |-> c]

\* rasterize, lines 128-161: the walk over one row's cell list
RECURSIVE row_writes(_, _, _, _, _, _, _, _)
row_writes(cells, fill, minx, maxx, row_offset, x, cover, index) ==
    LET cell == cells[index + 1]
        run == IF cover # 0 /\ cell.x > x
               THEN <<Write(row_offset, x, cell.x - x, coverage(fill, cover))>>
               ELSE <<>>
        cover1 == WrappingAdd(cover, WrappingShl(cell.cover, PIXEL_BITS + 1))
        area == WrappingSub(cover1, cell.area)
        one == IF area # 0 /\ cell.x >= minx
               THEN <<Write(row_offset, cell.x, 1, coverage(fill, area))>>
               ELSE <<>>
        x1 == cell.x + 1
    IN  IF cell.next = -1
        THEN run \o one \o
             (IF cover1 # 0
              THEN <<Write(row_offset, x1, maxx - x1, coverage(fill, cover1))>>
              ELSE <<>>)
        ELSE run \o one \o row_writes(cells, fill, minx, maxx, row_offset, x1, cover1, cell.next)

\* the row loop with `height - y` for the row of a target that grows upwards
RECURSIVE emit_rows_height_less_y(_, _, _, _, _)
emit_rows_height_less_y(r, fill, pitch, y_up, i) ==
    IF i >= Len(r.storage.indices)
    THEN <<>>
    ELSE LET index == r.storage.indices[i + 1]
             y == i - r.ymin
             row_offset == IF y_up THEN pitch * (r.height - y) ELSE pitch * y
             here == IF index # -1
                     THEN row_writes(r.storage.cells, fill, r.xmin, r.xmax,
                                     row_offset, r.xmin, 0, index)
                     ELSE <<>>
         IN  here \o emit_rows_height_less_y(r, fill, pitch, y_up, i + 1)

\* rasterize, lines 110-163: the writes of all rows, in row order
RECURSIVE emit_rows(_, _, _, _, _)
emit_rows(r, fill, pitch, y_up, i) ==
    IF i >= Len(r.storage.indices)
    THEN <<>>
    ELSE LET index == r.storage.indices[i + 1]
             y == i - r.ymin
             row_offset == IF y_up THEN pitch * (r.height - 1 - y) ELSE pitch * y
             here == IF index # -1
                     THEN row_writes(r.storage.cells, fill, r.xmin, r.xmax,
                                     row_offset, r.xmin, 0, index)
                     ELSE <<>>
         IN  here \o emit_rows(r, fill, pitch, y_up, i + 1)

\* `for b in &mut row[xi..xi + count] { *b = c }` for each write, in order.
RECURSIVE apply_writes(_, _)
apply_writes(buf, ws) ==
    IF ws = <<>>
    THEN buf
    ELSE LET w == Head(ws)
             written == {w.row_offset + w.xi + k : k \in 0..(w.count - 1)}
         IN  apply_writes([j \in DOMAIN buf |-> IF j \in written THEN w.c ELSE buf[j]],
                          Tail(ws))

\* A zero-initialised buffer of pitch * height bytes.
ZeroBuffer(pitch, h) == [j \in 0..(pitch * h - 1) |-> 0]

(***************************************************************************)
(* The rasterizer as a state machine: one Rasterizer and its storage,      *)
(* reused for several rasterize calls.  A call is RasBegin, then the       *)
(* builder calls of the apply callback, then RasFinish.                    *)
(***************************************************************************)
\* The points the apply callback may pass, already in fixed point: inside
\* the target, right of it, below it, and left of it.
RasPoints ==
    {FixedPoint(32, 48), FixedPoint(480, 96), FixedPoint(200, 500), FixedPoint(-100, 300)}

\* Points on every side of the target, two cells and more away from it:
\* inside, right, below, left and above.
ClipPoints ==
    {FixedPoint(32, 48), FixedPoint(900, 96), FixedPoint(200, 800),
     FixedPoint(-600, 300), FixedPoint(100, -300)}
RasPointsOf(s) == IF s = "clip" THEN ClipPoints ELSE RasPoints
RasDims == 1..MaxRasDim

MoveTo(p) == [op |-> "MoveTo", to |-> p]
LineTo(p) == [op |-> "LineTo", to |-> p]
Close == [op |-> "Close"]

\* rasterize(shift, width, height, apply, fill, buffer, pitch, y_up) up to
\* the call of apply, on a zero-initialised, tightly packed buffer.
RasBegin(w, h, fill, y_up) ==
    /\ sys \in {"raster", "clip"}
    /\ rasPc = "idle"
    /\ rasCalls < MaxRasCalls
    /\ ras' = rasterize_begin(ras, w, h)
    /\ buffer' = ZeroBuffer(w, h)
    /\ rasPc' = "apply"
    /\ rasArgs' = [w |-> w, h |-> h, fill |-> fill, y_up |-> y_up,
                   stale_cells |-> ras.storage.cells # <<>>,
                   stale_cover |-> ras.cover # 0 \/ ras.area # 0]
    /\ rasCmds' = <<>>
    /\ rasCalls' = rasCalls + 1
    /\ UNCHANGED nonRasVars

RasDeliver(cmd) ==
    /\ sys \in {"raster", "clip"}
    /\ rasPc = "apply"
    /\ Len(rasCmds) < MaxRasCmds
    /\ ras' = Deliver(ras, cmd)
    /\ rasCmds' = Append(rasCmds, cmd)
    /\ UNCHANGED <<buffer, rasPc, rasArgs, rasCalls>>
    /\ UNCHANGED nonRasVars

RasMoveTo == \E p \in RasPointsOf(sys) : RasDeliver(MoveTo(p))
RasLineTo == \E p \in RasPointsOf(sys) : RasDeliver(LineTo(p))
RasClose == RasDeliver(Close)

\* rasterize after apply returns: implicit close, last cell, row emission.
RasFinish ==
    /\ sys \in {"raster", "clip"}
    /\ rasPc = "apply"
    /\ ras' = rasterize_flush(ras)
    /\ buffer' = apply_writes(buffer,
                     emit_rows(ras', rasArgs.fill, rasArgs.w, rasArgs.y_up, 0))
    /\ rasPc' = "idle"
    /\ UNCHANGED <<rasArgs, rasCmds, rasCalls>>
    /\ UNCHANGED nonRasVars

RasNext ==
    \/ \E w \in RasDims, h \in RasDims, fill \in Fills, y_up \in BOOLEAN :
           RasBegin(w, h, fill, y_up)
    \/ RasMoveTo
    \/ RasLineTo
    \/ RasClose
    \/ RasFinish

\* What rasterize writes for the same arguments with a Rasterizer and a
\* storage that have never been used.
RECURSIVE DeliverAll(_, _)
DeliverAll(r, cmds) ==
    IF cmds = <<>> THEN r ELSE DeliverAll(Deliver(r, Head(cmds)), Tail(cmds))

FreshRender(args, cmds) ==
    LET r0 == rasterize_begin(Rasterizer_new(HeapStorageNew), args.w, args.h)
        r1 == rasterize_flush(DeliverAll(r0, cmds))
    IN  apply_writes(ZeroBuffer(args.w, args.h),
                     emit_rows(r1, args.fill, args.w, args.y_up, 0))

(***************************************************************************)
(* coverage() as a pure function of the accumulated value.                 *)
(***************************************************************************)
\* The ends of the i32 range and the values around the clamp at 255.
CovExtremes ==
    {I32_MIN, I32_MIN + 1, I32_MIN + 512, -131072, -131071, -130561, -130560,
     I32_MAX - 512, I32_MAX - 1, I32_MAX}
CovInputs == (-MaxCovExtra)..(2 * ONE_PIXEL * ONE_PIXEL + MaxCovExtra) \cup CovExtremes

CovApply ==
    /\ sys = "coverage"
    /\ covOut = <<>>
    /\ covOut' = [f \in Fills |-> coverage(f, covIn)]
    /\ UNCHANGED covIn
    /\ UNCHANGED nonCovVars

CovNext == CovApply

(***************************************************************************)
(* svg_parser.rs: SvgCommands and validate_svg.  The buffer is a sequence  *)
(* of one-character strings; byte offset k of the source is element k + 1. *)
(* The parser is modelled for the commands M, L and Z/z; the coordinates'  *)
(* values play no part in validation and are not kept.                     *)
(***************************************************************************)
NUL == ""       \* the byte 0 that `cur` holds before the start and at the end

SvgDigits == {"0", "1", "2", "3", "4", "5", "6", "7", "8", "9"}
SvgWhitespace == {"\t", " ", "\n", "\f", "\r"}

\* SvgCommands::new
SvgCommands_new(source) ==
    [buf |-> source, cur |-> NUL, pos |-> 0, cmd_pos |-> 0,
     error |-> FALSE, done |-> FALSE,
     state |-> [tag |-> "Initial", cmd |-> NUL]]

\* SvgCommands::advance
svg_advance(p) ==
    IF p.pos = Len(p.buf)
    THEN [p EXCEPT !.done = TRUE, !.cur = NUL]
    ELSE [p EXCEPT !.cur = p.buf[p.pos + 1], !.pos = p.pos + 1]

\* SvgCommands::skip_whitespace
RECURSIVE svg_skip_whitespace(_)
svg_skip_whitespace(p) ==
    IF p.cur \in SvgWhitespace THEN svg_skip_whitespace(svg_advance(p)) ELSE p

\* SvgCommands::skip_comma_whitespace
svg_skip_comma_whitespace(p) ==
    LET p1 == svg_skip_whitespace(p)
    IN  IF p1.cur = "," THEN svg_skip_whitespace(svg_advance(p1)) ELSE p1

\* The loop of SvgCommands::number: `n` bytes collected so far, `digits` of
\* them digits.  The collected text parses as an f32 when it holds a digit;
\* the 32-byte buffer refuses a 33rd byte.
RECURSIVE svg_number_loop(_, _, _, _)
svg_number_loop(p, n, has_decimal, digits) ==
    IF p.cur = "." /\ ~has_decimal
    THEN IF n >= 32 THEN [ok |-> FALSE, p |-> p]
         ELSE svg_number_loop(svg_advance(p), n + 1, TRUE, digits)
    ELSE IF p.cur \in SvgDigits
    THEN IF n >= 32 THEN [ok |-> FALSE, p |-> p]
         ELSE svg_number_loop(svg_advance(p), n + 1, has_decimal, digits + 1)
    ELSE [ok |-> digits > 0, p |-> p]

\* SvgCommands::number
svg_number(p) == svg_number_loop(p, 0, FALSE, 0)

\* SvgCommands::coord
svg_coord(p) ==
    IF p.cur \in {"+", "-"} THEN svg_number(svg_advance(p)) ELSE svg_number(p)

\* SvgCommands::point (point_to adds only the update of cur_point)
svg_point(p) ==
    LET a == svg_coord(p)
    IN  IF ~a.ok THEN a ELSE svg_coord(svg_skip_comma_whitespace(a.p))

\* The default arm of both matches in parse
svg_unknown_command(p, cmd) ==
    IF ~p.done \/ cmd # NUL
    THEN [p EXCEPT !.error = TRUE, !.pos = p.cmd_pos]
    ELSE p

\* SvgCommands::parse: the parser after the call and what the call returned
\* ("None", or the kind of the command).
RECURSIVE svg_parse(_)
svg_parse(p) ==
    CASE p.state.tag = "Initial" ->
            svg_parse([svg_skip_whitespace(svg_advance(p)) EXCEPT !.state.tag = "Next"])
      [] p.state.tag = "Next" ->
            LET p1 == svg_skip_whitespace(p)
                cmd == p1.cur
                p2 == [svg_skip_whitespace(svg_advance([p1 EXCEPT !.cmd_pos = p1.pos]))
                          EXCEPT !.state = [tag |-> "Continue", cmd |-> cmd]]
            IN  CASE cmd \in {"z", "Z"} ->
                        [p |-> [p2 EXCEPT !.state.tag = "Next"], out |-> "Close"]
                  [] cmd \in {"M", "L"} ->
                        LET to == svg_point(p2)
                        IN  IF to.ok
                            THEN [p |-> svg_skip_comma_whitespace(to.p),
                                  out |-> IF cmd = "M" THEN "MoveTo" ELSE "LineTo"]
                            ELSE [p |-> to.p, out |-> "None"]
                  [] OTHER ->
                        [p |-> svg_unknown_command(p2, cmd), out |-> "None"]
      [] p.state.tag = "Continue" ->
            IF p.state.cmd \in {"M", "L"}
            THEN LET to == svg_point(p)
                 IN  IF to.ok
                     THEN [p |-> svg_skip_comma_whitespace(to.p), out |-> "LineTo"]
                     ELSE svg_parse([to.p EXCEPT !.state.tag = "Next"])
            ELSE [p |-> svg_unknown_command(p, p.state.cmd), out |-> "None"]

\* validate_svg, after cmds.count() has run the iterator to its None
validate_svg_result(p, len) ==
    IF p.error \/ p.pos # len
    THEN <<"Err", IF p.pos = 0 THEN 0 ELSE p.pos - 1>>     \* saturating_sub(1)
    ELSE <<"Ok">>

SvgAlphabet == {"M", "L", "Z", "1", ",", " ", "X"}

RECURSIVE SvgStrings(_)
SvgStrings(n) ==
    IF n = 0 THEN {<<>>}
    ELSE LET shorter == SvgStrings(n - 1)
         IN  shorter \cup {Append(s, c) : s \in {t \in shorter : Len(t) = n - 1},
                                           c \in SvgAlphabet}

\* validate_svg: one turn of the iterator that count() drives, a command
\* being yielded.
SvgYield ==
    /\ sys = "svg"
    /\ svgRes = <<>>
    /\ LET r == svg_parse(svg)
       IN  /\ r.out # "None"
           /\ svg' = r.p
           /\ svgOut' = Append(svgOut, r.out)
    /\ UNCHANGED svgRes
    /\ UNCHANGED nonSvgVars

\* validate_svg: the iterator returns None, count() ends and the result is
\* computed from `error` and `pos`.
SvgFinish ==
    /\ sys = "svg"
    /\ svgRes = <<>>
    /\ LET r == svg_parse(svg)
       IN  /\ r.out = "None"
           /\ svg' = r.p
           /\ svgRes' = validate_svg_result(r.p, Len(svg.buf))
    /\ UNCHANGED svgOut
    /\ UNCHANGED nonSvgVars

SvgNext == SvgYield \/ SvgFinish

(***************************************************************************)
(* command.rs: Command, Verb and PointsCommands.  Points are opaque to     *)
(* this code; the model numbers the points of a command list 1, 2, ... in  *)
(* order, so that any loss, repetition or reordering shows.                *)
(***************************************************************************)
QuadTo(c, p) == [op |-> "QuadTo", c |-> c, to |-> p]
CurveTo(c1, c2, p) == [op |-> "CurveTo", c1 |-> c1, c2 |-> c2, to |-> p]

\* enum Verb
Verbs == {"MoveTo", "LineTo", "CurveTo", "QuadTo", "Close"}

\* Command::verb
Command_verb(cmd) ==
    CASE cmd.op = "MoveTo" -> "MoveTo"
      [] cmd.op = "LineTo" -> "LineTo"
      [] cmd.op = "QuadTo" -> "QuadTo"
      [] cmd.op = "CurveTo" -> "CurveTo"
      [] cmd.op = "Close" -> "CurveTo"

\* The points a command carries, in the order the parallel array holds them.
CommandPoints(cmd) ==
    CASE cmd.op \in {"MoveTo", "LineTo"} -> <<cmd.to>>
      [] cmd.op = "QuadTo" -> <<cmd.c, cmd.to>>
      [] cmd.op = "CurveTo" -> <<cmd.c1, cmd.c2, cmd.to>>
      [] cmd.op = "Close" -> <<>>

\* PointsCommands::new
PointsCommands_new(points, verbs) ==
    [points |-> points, verbs |-> verbs, point |-> 0, verb |-> 0]

NoCommand == [op |-> "None"]

\* Iterator::next for PointsCommands: the iterator after the call and the
\* Option it returned.  self.verb is advanced before the points are looked up.
PointsCommands_next(it) ==
    IF it.verb >= Len(it.verbs)
    THEN [it |-> it, out |-> NoCommand]
    ELSE LET verb == it.verbs[it.verb + 1]
             it1 == [it EXCEPT !.verb = @ + 1]
             n == Len(it.points)
             p == it.point
         IN  CASE verb = "MoveTo" ->
                    IF p < n
                    THEN [it |-> [it1 EXCEPT !.point = p + 1], out |-> MoveTo(it.points[p + 1])]
                    ELSE [it |-> it1, out |-> NoCommand]
               [] verb = "LineTo" ->
                    IF p < n
                    THEN [it |-> [it1 EXCEPT !.point = p + 1], out |-> LineTo(it.points[p + 1])]
                    ELSE [it |-> it1, out |-> NoCommand]
               [] verb = "QuadTo" ->
                    IF p + 2 <= n
                    THEN [it |-> [it1 EXCEPT !.point = p + 2],
                          out |-> QuadTo(it.points[p + 1], it.points[p + 2])]
                    ELSE [it |-> it1, out |-> NoCommand]
               [] verb = "CurveTo" ->
                    IF p + 3 <= n
                    THEN [it |-> [it1 EXCEPT !.point = p + 3],
                          out |-> CurveTo(it.points[p + 1], it.points[p + 2], it.points[p + 3])]
                    ELSE [it |-> it1, out |-> NoCommand]
               [] verb = "Close" ->
                    [it |-> it1, out |-> Close]

\* A call made on the sink (a PathBuilder).
SinkCall(name, args) == [call |-> name, args |-> args]

RECURSIVE copy_to_inner_skips_verb(_, _, _, _)
copy_to_inner_skips_verb(it, sink, k, i) ==
    IF k > Len(it.verbs) THEN sink
    ELSE LET verb == it.verbs[k]
             n == Len(it.points)
         IN  CASE verb = "MoveTo" ->
                    IF i < n
                    THEN copy_to_inner_skips_verb(it, Append(sink, SinkCall("move_to", <<it.points[i + 1]>>)), k + 1, i + 1)
                    ELSE copy_to_inner_skips_verb(it, sink, k + 1, i)
               [] verb = "LineTo" ->
                    IF i < n
                    THEN copy_to_inner_skips_verb(it, Append(sink, SinkCall("line_to", <<it.points[i + 1]>>)), k + 1, i + 1)
                    ELSE copy_to_inner_skips_verb(it, sink, k + 1, i)
               [] verb = "QuadTo" ->
                    IF i + 1 < n
                    THEN copy_to_inner_skips_verb(it, Append(sink, SinkCall("quad_to", <<it.points[i + 1], it.points[i + 2]>>)), k + 1, i + 2)
                    ELSE copy_to_inner_skips_verb(it, sink, k + 1, i)
               [] verb = "CurveTo" ->
                    IF i + 2 < n
                    THEN copy_to_inner_skips_verb(it, Append(sink, SinkCall("curve_to", <<it.points[i + 1], it.points[i + 2], it.points[i + 3]>>)), k + 1, i + 3)
                    ELSE copy_to_inner_skips_verb(it, sink, k + 1, i)
               [] verb = "Close" ->
                    copy_to_inner_skips_verb(it, Append(sink, SinkCall("close", <<>>)), k + 1, i)

\* PointsCommands::copy_to_inner from the k-th verb on, i points consumed:
\* the calls the sink has received when it returns.  It reads self.points
\* and self.verbs only, never the iterator's position.
RECURSIVE copy_to_inner(_, _, _, _)
copy_to_inner(it, sink, k, i) ==
    IF k > Len(it.verbs) THEN sink
    ELSE LET verb == it.verbs[k]
             n == Len(it.points)
         IN  CASE verb = "MoveTo" ->
                    IF i < n
                    THEN copy_to_inner(it, Append(sink, SinkCall("move_to", <<it.points[i + 1]>>)), k + 1, i + 1)
                    ELSE sink
               [] verb = "LineTo" ->
                    IF i < n
                    THEN copy_to_inner(it, Append(sink, SinkCall("line_to", <<it.points[i + 1]>>)), k + 1, i + 1)
                    ELSE sink
               [] verb = "QuadTo" ->
                    IF i + 1 < n
                    THEN copy_to_inner(it, Append(sink, SinkCall("quad_to", <<it.points[i + 1], it.points[i + 2]>>)), k + 1, i + 2)
                    ELSE sink
               [] verb = "CurveTo" ->
                    IF i + 2 < n
                    THEN copy_to_inner(it, Append(sink, SinkCall("curve_to", <<it.points[i + 1], it.points[i + 2], it.points[i + 3]>>)), k + 1, i + 3)
                    ELSE sink
               [] verb = "Close" ->
                    copy_to_inner(it, Append(sink, SinkCall("close", <<>>)), k + 1, i)

\* PointsCommands::copy_to
PointsCommands_copy_to(it, sink) == copy_to_inner(it, sink, 1, 0)

\* The command with tag `op` whose points are numbered from `first`.
CommandOf(op, first) ==
    CASE op = "MoveTo" -> MoveTo(first)
      [] op = "LineTo" -> LineTo(first)
      [] op = "QuadTo" -> QuadTo(first, first + 1)
      [] op = "CurveTo" -> CurveTo(first, first + 1, first + 2)
      [] op = "Close" -> Close

RECURSIVE PcPointsOf(_)
PcPointsOf(cmds) ==
    IF cmds = <<>> THEN <<>> ELSE CommandPoints(Head(cmds)) \o PcPointsOf(Tail(cmds))

\* The command lists of at most n commands, their points numbered in order.
RECURSIVE PcCommandLists(_)
PcCommandLists(n) ==
    IF n = 0 THEN {<<>>}
    ELSE LET shorter == PcCommandLists(n - 1)
         IN  shorter \cup {Append(l, CommandOf(op, Len(PcPointsOf(l)) + 1)) :
                              l \in {t \in shorter : Len(t) = n - 1}, op \in Verbs}

\* The caller builds the parallel arrays of a command list, the verbs taken
\* with Command::verb, the points array `drop` points short.
PcEncodeVerb(drop) ==
    /\ sys = "points"
    /\ pcPc = "new"
    /\ drop <= Len(PcPointsOf(pcCmds))
    /\ pcPoints' = SubSeq(PcPointsOf(pcCmds), 1, Len(PcPointsOf(pcCmds)) - drop)
    /\ pcVerbs' = [k \in DOMAIN pcCmds |-> Command_verb(pcCmds[k])]
    /\ pcIt' = PointsCommands_new(pcPoints', pcVerbs')
    /\ pcPc' = "verb"
    /\ UNCHANGED <<pcCmds, pcYield, pcSink>>
    /\ UNCHANGED nonPcVars

\* The caller writes the verbs by hand, as path_data.rs's example does.
PcEncodeTags(drop) ==
    /\ sys = "points"
    /\ pcPc = "new"
    /\ drop <= Len(PcPointsOf(pcCmds))
    /\ pcPoints' = SubSeq(PcPointsOf(pcCmds), 1, Len(PcPointsOf(pcCmds)) - drop)
    /\ pcVerbs' = [k \in DOMAIN pcCmds |-> pcCmds[k].op]
    /\ pcIt' = PointsCommands_new(pcPoints', pcVerbs')
    /\ pcPc' = "tags"
    /\ UNCHANGED <<pcCmds, pcYield, pcSink>>
    /\ UNCHANGED nonPcVars

\* One step of a loop over the iterator (for, collect, eq): next() is
\* called and the loop ends at the first None.
PcIterate ==
    /\ sys = "points"
    /\ pcPc \in {"verb", "tags"}
    /\ pcYield.ended = FALSE
    /\ LET r == PointsCommands_next(pcIt)
       IN  /\ pcIt' = r.it
           /\ pcYield' = IF r.out = NoCommand
                         THEN [pcYield EXCEPT !.ended = TRUE]
                         ELSE [pcYield EXCEPT !.cmds = Append(@, r.out)]
    /\ UNCHANGED <<pcCmds, pcPoints, pcVerbs, pcPc, pcSink>>
    /\ UNCHANGED nonPcVars

\* PathData::copy_to for (points, verbs), on an empty recording sink.
PcCopyTo ==
    /\ sys = "points"
    /\ pcPc \in {"verb", "tags"}
    /\ pcSink.copied = FALSE
    /\ pcSink' = [copied |-> TRUE,
                  calls |-> PointsCommands_copy_to(PointsCommands_new(pcPoints, pcVerbs), <<>>)]
    /\ UNCHANGED <<pcCmds, pcPoints, pcVerbs, pcPc, pcIt, pcYield>>
    /\ UNCHANGED nonPcVars

PcNext ==
    \/ \E drop \in 0..MaxPcDrop : PcEncodeVerb(drop)
    \/ \E drop \in 0..MaxPcDrop : PcEncodeTags(drop)
    \/ PcIterate
    \/ PcCopyTo

(***************************************************************************)
(* geometry.rs / segment.rs: points, lines and the Segments iterator.      *)
(* Coordinates are integers, so two points are nearly equal by             *)
(* MERGE_EPSILON = 0.01 exactly when they are equal.  The iterator is      *)
(* modelled without curve splitting (split = false, as Vertices and Walk   *)
(* create it) and for the commands MoveTo, LineTo and Close.               *)
(***************************************************************************)
Point(x, y) == [x |-> x, y |-> y]

\* Vector::nearly_eq_by with an epsilon below the coordinate grid
nearly_eq_by(a, b) == Abs(a.x - b.x) < 1 /\ Abs(a.y - b.y) < 1

\* Segment::Line(id, Line::new(a, b)), Segment::End(closed)
SegLine(id, a, b) == [kind |-> "Line", id |-> id, a |-> a, b |-> b]
SegEnd(closed) == [kind |-> "End", closed |-> closed]
NoSegment == [kind |-> "None"]

\* Segments::new: the commands are a sequence and `at` counts those the
\* command iterator has handed out.  The split flag is which of
\* Segments_next and Segments_next_split the owner calls.
Segments_new(commands) ==
    [commands |-> commands, at |-> 0,
     start |-> Point(0, 0), prev |-> Point(0, 0),
     close |-> FALSE, last_was_end |-> TRUE, id |-> 0, count |-> 0]

\* Segments::inc_id without the wrap at 254: a u8 that counts on.
inc_id_u8(s) == [s EXCEPT !.id = (s.id + 1) % 256]

\* Segments::inc_id
inc_id(s) == [s EXCEPT !.id = IF s.id = 254 THEN 0 ELSE s.id + 1]

\* The loop of Segments::next without splitting: it pulls commands until
\* one produces a segment or the commands end.
RECURSIVE Segments_next_loop(_, _)
Segments_next_loop(s, id) ==
    IF s.at >= Len(s.commands)
    THEN [s |-> s, out |-> NoSegment]                   \* self.commands.next()?
    ELSE LET cmd == s.commands[s.at + 1]
             s1 == [s EXCEPT !.at = @ + 1]
             from == s.prev
         IN  CASE cmd.op = "MoveTo" ->
                    LET s2 == [s1 EXCEPT !.start = cmd.to, !.prev = cmd.to, !.count = 0]
                    IN  IF ~s2.last_was_end
                        THEN [s |-> [s2 EXCEPT !.last_was_end = TRUE], out |-> SegEnd(FALSE)]
                        ELSE Segments_next_loop(s2, id)
               [] cmd.op = "LineTo" ->
                    IF ~nearly_eq_by(from, cmd.to)
                    THEN [s |-> [s1 EXCEPT !.count = @ + 1, !.prev = cmd.to,
                                           !.last_was_end = FALSE],
                          out |-> SegLine(id, from, cmd.to)]
                    ELSE Segments_next_loop(s1, id)
               [] cmd.op = "Close" ->
                    LET s2 == [s1 EXCEPT !.prev = s1.start]
                    IN  IF s2.count = 0 \/ ~nearly_eq_by(from, s2.start)
                        THEN [s |-> [s2 EXCEPT !.close = TRUE],
                              out |-> SegLine(id, from, s2.start)]
                        ELSE [s |-> [s2 EXCEPT !.count = 0, !.last_was_end = TRUE],
                              out |-> SegEnd(TRUE)]

\* Iterator::next for Segments
Segments_next(s) ==
    IF s.close
    THEN [s |-> [s EXCEPT !.close = FALSE, !.last_was_end = TRUE], out |-> SegEnd(TRUE)]
    ELSE Segments_next_loop(inc_id(s), s.id)

\* A loop over the iterator to its end (as in Walk::remaining): all the
\* segments it yields.
RECURSIVE SegmentsOf(_)
SegmentsOf(s) ==
    LET r == Segments_next(s)
    IN  IF r.out = NoSegment THEN <<>> ELSE <<r.out>> \o SegmentsOf(r.s)

\* The points and the line commands the traversal models draw paths from.
PathPoints == {Point(0, 0), Point(4, 0), Point(4, 3)}
LineCommands == {MoveTo(p) : p \in PathPoints} \cup {LineTo(p) : p \in PathPoints} \cup {Close}

RECURSIVE LinePaths(_)
LinePaths(n) ==
    IF n = 0 THEN {<<>>}
    ELSE LET shorter == LinePaths(n - 1)
         IN  shorter \cup {Append(l, c) : l \in {t \in shorter : Len(t) = n - 1},
                                           c \in LineCommands}

(***************************************************************************)
(* geometry.rs: vector length and normalisation, exact on the model's      *)
(* points (their differences have integer lengths).  A normalised vector   *)
(* is kept as the fraction (x / den, y / den).                             *)
(***************************************************************************)
Vector_sub(a, b) == Point(a.x - b.x, a.y - b.y)

\* Vector::length
Vector_length(v) ==
    IF v.y = 0 THEN Abs(v.x)
    ELSE IF v.x = 0 THEN Abs(v.y)
    ELSE LET n == v.x * v.x + v.y * v.y
         IN  CHOOSE r \in 0..(Abs(v.x) + Abs(v.y)) : r * r = n

\* Vector::normalize
Vector_normalize(v) ==
    IF Vector_length(v) = 0
    THEN [x |-> 0, y |-> 0, den |-> 1]
    ELSE [x |-> v.x, y |-> v.y, den |-> Vector_length(v)]

(***************************************************************************)
(* traversal.rs: Vertices.                                                 *)
(***************************************************************************)
VertexStart(p, dir) == [kind |-> "Start", p |-> p, out_dir |-> dir]
VertexMiddle(in_dir, p, out_dir) ==
    [kind |-> "Middle", in_dir |-> in_dir, p |-> p, out_dir |-> out_dir]
VertexEnd(in_dir, p, closed) == [kind |-> "End", in_dir |-> in_dir, p |-> p, closed |-> closed]
NoVertex == [kind |-> "None"]

\* Vertices::new
Vertices_new(data) ==
    [segments |-> Segments_new(data), prev_point |-> Point(0, 0),
     prev_dir |-> [x |-> 1, y |-> 0, den |-> 1], is_first |-> TRUE]

\* get_components, for a line: (start, in_dir, out_dir, end)
get_components(segment) ==
    LET dir == Vector_normalize(Vector_sub(segment.b, segment.a))
    IN  [start |-> segment.a, in_dir |-> dir, out_dir |-> dir, end |-> segment.b]

\* Iterator::next for Vertices
Vertices_next(v) ==
    LET r == Segments_next(v.segments)
        v1 == [v EXCEPT !.segments = r.s]
    IN  IF r.out = NoSegment
        THEN [v |-> [v1 EXCEPT !.is_first = FALSE], out |-> NoVertex]   \* segments.next()?
        ELSE IF r.out.kind = "End"
        THEN [v |-> [v1 EXCEPT !.is_first = TRUE],
              out |-> VertexEnd(v.prev_dir, v.prev_point, r.out.closed)]
        ELSE LET c == get_components(r.out)
                 v2 == [v1 EXCEPT !.is_first = FALSE, !.prev_dir = c.out_dir,
                                  !.prev_point = c.end]
             IN  IF v.is_first
                 THEN [v |-> v2, out |-> VertexStart(c.start, c.in_dir)]
                 ELSE [v |-> v2, out |-> VertexMiddle(v.prev_dir, c.start, c.in_dir)]

\* A loop over Vertices: one call of next(), the loop ending at the first None.
VtxYield ==
    /\ sys = "vertices"
    /\ ~vtxDone
    /\ LET r == Vertices_next(vtx)
       IN  /\ r.out # NoVertex
           /\ vtx' = r.v
           /\ vtxOut' = Append(vtxOut, r.out)
    /\ UNCHANGED vtxDone
    /\ UNCHANGED nonVtxVars

VtxEnd ==
    /\ sys = "vertices"
    /\ ~vtxDone
    /\ LET r == Vertices_next(vtx)
       IN  /\ r.out = NoVertex
           /\ vtx' = r.v
    /\ vtxDone' = TRUE
    /\ UNCHANGED vtxOut
    /\ UNCHANGED nonVtxVars

VtxNext == VtxYield \/ VtxEnd

(***************************************************************************)
(* segment.rs: Line::time, Segment::time, Segment::point_normal; and       *)
(* traversal.rs: Walk.  Distances are integers and a time is kept as the   *)
(* fraction num / den (0 / 0 being the NaN that 0.0 / 0.0 gives).          *)
(***************************************************************************)
\* Line::time
Line_time(line, distance) ==
    LET len == Vector_length(Vector_sub(line.b, line.a))
    IN  IF distance > len
        THEN [distance |-> len, time |-> [num |-> 1, den |-> 1]]
        ELSE [distance |-> distance, time |-> [num |-> distance, den |-> len]]

\* Segment::time
Segment_time(segment, distance) ==
    IF segment.kind = "Line"
    THEN Line_time(segment, distance)
    ELSE [distance |-> 0, time |-> [num |-> 0, den |-> 1]]

\* geometry.rs: normal
normal(start, end) == Vector_normalize(Point(end.y - start.y, -(end.x - start.x)))

\* Segment::point_normal: the point line.a + dir * time as a fraction
\* (x / den, y / den), and the normal.
Segment_point_normal(segment, time) ==
    IF segment.kind = "Line"
    THEN [p |-> [x |-> segment.a.x * time.den + (segment.b.x - segment.a.x) * time.num,
                 y |-> segment.a.y * time.den + (segment.b.y - segment.a.y) * time.num,
                 den |-> time.den],
          n |-> normal(segment.a, segment.b)]
    ELSE [p |-> [x |-> 0, y |-> 0, den |-> 1], n |-> [x |-> 0, y |-> 0, den |-> 1]]

\* Walk::new (the fields step uses)
Walk_new(data) ==
    [iter |-> Segments_new(data), segment |-> SegEnd(FALSE), segment_offset |-> 0,
     first |-> TRUE, walked |-> 0]

\* Walk::next_segment, on the Segments iterator
RECURSIVE Walk_next_segment(_)
Walk_next_segment(iter) ==
    LET r == Segments_next(iter)
    IN  IF r.out # NoSegment /\ r.out.kind = "End" THEN Walk_next_segment(r.s) ELSE r

NoStep == [kind |-> "None"]

RECURSIVE Walk_step_loop_keeps_offset(_, _, _, _, _)
Walk_step_loop_keeps_offset(w, segment, offset, remaining, distance) ==
    LET dt == Segment_time(segment, offset + remaining)
        left == remaining - (dt.distance - offset)
    IN  IF left <= 0
        THEN [w |-> [w EXCEPT !.segment = segment, !.segment_offset = dt.distance,
                              !.walked = @ + distance],
              out |-> [kind |-> "Some", at |-> Segment_point_normal(segment, dt.time)]]
        ELSE LET r == Walk_next_segment(w.iter)
             IN  IF r.out = NoSegment
                 THEN [w |-> [w EXCEPT !.iter = r.s], out |-> NoStep]
                 ELSE Walk_step_loop_keeps_offset([w EXCEPT !.iter = r.s], r.out,
                                                  dt.distance, left, distance)

\* The loop of Walk::step; `segment` and `offset` are its locals, stored
\* into the Walk only when the loop breaks.
RECURSIVE Walk_step_loop(_, _, _, _, _)
Walk_step_loop(w, segment, offset, remaining, distance) ==
    LET dt == Segment_time(segment, offset + remaining)
        left == remaining - (dt.distance - offset)
    IN  IF left <= 0
        THEN [w |-> [w EXCEPT !.segment = segment, !.segment_offset = dt.distance,
                              !.walked = @ + distance],
              out |-> [kind |-> "Some", at |-> Segment_point_normal(segment, dt.time)]]
        ELSE LET r == Walk_next_segment(w.iter)
             IN  IF r.out = NoSegment
                 THEN [w |-> [w EXCEPT !.iter = r.s], out |-> NoStep]
                 ELSE Walk_step_loop([w EXCEPT !.iter = r.s], r.out, 0, left, distance)

\* Walk::step
Walk_step(w, distance) ==
    IF w.first
    THEN LET r == Walk_next_segment(w.iter)
         IN  IF r.out = NoSegment
             THEN [w |-> [w EXCEPT !.iter = r.s], out |-> NoStep]
             ELSE Walk_step_loop([w EXCEPT !.iter = r.s, !.segment = r.out,
                                           !.segment_offset = 0, !.first = FALSE],
                                 r.out, 0, distance, distance)
    ELSE Walk_step_loop(w, w.segment, w.segment_offset, distance, distance)

WalkDistances == 0..MaxWalkDist

\* walkA.step(d1), the first of the two steps
WalkStepFirst ==
    /\ sys = "walk"
    /\ walkA.steps = 0
    /\ LET r == Walk_step(walkA.walk, walkD[1])
       IN  walkA' = [walk |-> r.w, steps |-> 1, out |-> r.out]
    /\ UNCHANGED <<walkB, walkD>>
    /\ UNCHANGED nonWalkVars

\* walkA.step(d2), after the first step returned a point
WalkStepSecond ==
    /\ sys = "walk"
    /\ walkA.steps = 1
    /\ walkA.out # NoStep
    /\ LET r == Walk_step(walkA.walk, walkD[2])
       IN  walkA' = [walk |-> r.w, steps |-> 2, out |-> r.out]
    /\ UNCHANGED <<walkB, walkD>>
    /\ UNCHANGED nonWalkVars

\* walkB.step(d1 + d2), on a fresh Walk over the same path
WalkStepSum ==
    /\ sys = "walk"
    /\ walkB.steps = 0
    /\ LET r == Walk_step(walkB.walk, walkD[1] + walkD[2])
       IN  walkB' = [walk |-> r.w, steps |-> 1, out |-> r.out]
    /\ UNCHANGED <<walkA, walkD>>
    /\ UNCHANGED nonWalkVars

WalkNext == WalkStepFirst \/ WalkStepSecond \/ WalkStepSum

(***************************************************************************)
(* mask.rs: the Mask builder and the placement it computes.  Coordinates   *)
(* (offsets, bounds) are in half pixels, so that floor, ceil and the `as`  *)
(* casts have fractions to act on; widths, heights and the fields of a     *)
(* Placement are in whole pixels.  The bounds of the path under the style  *)
(* and transform are an input.                                             *)
(***************************************************************************)
\* f32::floor and f32::ceil
FloorHalf(v) == 2 * (v \div 2)
CeilHalf(v) == -FloorHalf(-v)

\* `as i32` (toward zero) and `as u32` (toward zero, negative to 0) of an f32
AsI32(v) == TruncDiv(v, 2)
AsU32(v) == IF v < 0 THEN 0 ELSE v \div 2

Origins == {"TopLeft", "BottomLeft"}

\* Mask::new (the fields placement reads)
Mask_new ==
    [origin |-> "TopLeft", offset |-> Point(0, 0), width |-> 0, height |-> 0,
     explicit_size |-> FALSE, has_size |-> FALSE, bounds_offset |-> Point(0, 0)]

\* Mask::origin, Mask::offset, Mask::size
Mask_origin(m, origin) == [m EXCEPT !.origin = origin]
Mask_offset(m, offset) == [m EXCEPT !.offset = offset]
Mask_size(m, width, height) ==
    [m EXCEPT !.width = width, !.height = height,
              !.explicit_size = TRUE, !.has_size = TRUE]

Placement(left, top, width, height) ==
    [left |-> left, top |-> top, width |-> width, height |-> height]

\* Mask::placement: the offset the path is shifted by and the Placement
Mask_placement(m, bounds) ==
    IF m.explicit_size
    THEN [offset |-> m.offset, placement |-> Placement(0, 0, m.width, m.height)]
    ELSE LET min == Point(FloorHalf(bounds.min.x + m.offset.x),
                          FloorHalf(bounds.min.y + m.offset.y))
             max == Point(CeilHalf(bounds.max.x + m.offset.x),
                          CeilHalf(bounds.max.y + m.offset.y))
             offset == IF ~m.has_size THEN Point(-min.x, -min.y) ELSE m.bounds_offset
             width == IF ~m.has_size THEN AsU32(max.x - min.x) ELSE m.width
             height == IF ~m.has_size THEN AsU32(max.y - min.y) ELSE m.height
             top == IF m.origin = "BottomLeft"
                    THEN AsI32(FloorHalf(-offset.y) + 2 * m.height)   \* self.height
                    ELSE AsI32(-offset.y)
         IN  [offset |-> offset,
              placement |-> Placement(AsI32(-offset.x), top, width, height)]

\* Mask::ensure_size
Mask_ensure_size(m, bounds) ==
    IF m.has_size THEN m
    ELSE LET r == Mask_placement(m, bounds)
         IN  [m EXCEPT !.bounds_offset = r.offset, !.width = r.placement.width,
                       !.height = r.placement.height,
                       !.explicit_size = FALSE, !.has_size = TRUE]

\* The inputs of the builder calls, in half pixels and pixels.
MaskOffsets == {Point(0, 0), Point(3, -5)}
MaskSizes == {<<4, 3>>}
MaskBounds == {[min |-> Point(0, 0), max |-> Point(8, 6)],
               [min |-> Point(1, -3), max |-> Point(7, 5)]}

MaskCall(name) ==
    /\ sys = "mask"
    /\ maskOut = <<>>
    /\ Len(maskCalls) < MaxMaskCalls
    /\ maskCalls' = Append(maskCalls, name)
    /\ UNCHANGED <<maskBounds, maskOut>>
    /\ UNCHANGED nonMaskVars

MaskSetOrigin(origin) == MaskCall("origin") /\ mask' = Mask_origin(mask, origin)
MaskSetOffset(offset) == MaskCall("offset") /\ mask' = Mask_offset(mask, offset)
MaskSetSize(size) == MaskCall("size") /\ mask' = Mask_size(mask, size[1], size[2])

\* Mask::inspect (the closure only reads the format and the size)
MaskInspect == MaskCall("inspect") /\ mask' = Mask_ensure_size(mask, maskBounds)

\* Mask::render and Mask::render_into: both return the Placement that
\* placement() computes and rasterize with the offset it returns.
MaskRender(name) ==
    /\ sys = "mask"
    /\ maskOut = <<>>
    /\ maskOut' = <<name, Mask_placement(mask, maskBounds)>>
    /\ UNCHANGED <<mask, maskBounds, maskCalls>>
    /\ UNCHANGED nonMaskVars

MaskNext ==
    \/ \E origin \in Origins : MaskSetOrigin(origin)
    \/ \E offset \in MaskOffsets : MaskSetOffset(offset)
    \/ \E size \in MaskSizes : MaskSetSize(size)
    \/ MaskInspect
    \/ MaskRender("render")
    \/ MaskRender("render_into")

(***************************************************************************)
(* stroke.rs: dashing.  Lengths (dashes, offsets, coordinates) are counted *)
(* in halves, so that dashes below 1. other than 0. exist: 1. is 2.  Times *)
(* are fractions num / den, as in Line_time.                               *)
(***************************************************************************)
Time(num, den) == [num |-> num, den |-> den]

\* f32 (the type of dashes, offsets and distances): its significand holds
\* 24 bits, so every integer below 2^24 is an f32 and beyond it they thin out.
F32_EXACT == 16777216

\* The spacing of the f32 values around n >= 0: a significand holds 24 bits.
\* (Counting in halves scales every value by 2 and leaves the rounding as
\* it is.)
RECURSIVE F32Ulp(_)
F32Ulp(n) == IF n < F32_EXACT THEN 1 ELSE 2 * F32Ulp(n \div 2)

\* The f32 nearest to n >= 0, ties to the even significand: what an f32
\* addition or subtraction with the exact result n returns.
F32Round(n) ==
    IF n < F32_EXACT THEN n
    ELSE IF 2 * (n % F32Ulp(n)) > F32Ulp(n)
            \/ (2 * (n % F32Ulp(n)) = F32Ulp(n) /\ (n \div F32Ulp(n)) % 2 = 1)
    THEN ((n \div F32Ulp(n)) + 1) * F32Ulp(n)
    ELSE (n \div F32Ulp(n)) * F32Ulp(n)

\* t == u, t >= u on f32 times; a time with den = 0 is NaN and compares false
TimeEq(t, u) == t.den # 0 /\ u.den # 0 /\ t.num * u.den = u.num * t.den
TimeGe(t, u) == t.den # 0 /\ u.den # 0 /\ t.num * u.den >= u.num * t.den

\* Cap (Butt, Square, Round): the pairs of start and end cap the model draws
CapPairs == {<<"Butt", "Butt">>, <<"Round", "Square">>}

\* The loop of Segments::next with splitting, for the commands that produce
\* no curve: each round takes the next id before it pulls a command.
RECURSIVE Segments_next_split_loop(_)
Segments_next_split_loop(s0) ==
    LET s == inc_id(s0)
        id == s.id
        from == s.prev
    IN  IF s.at >= Len(s.commands)
        THEN [s |-> s, out |-> NoSegment]                   \* self.commands.next()?
        ELSE LET cmd == s.commands[s.at + 1]
                 s1 == [s EXCEPT !.at = @ + 1]
             IN  CASE cmd.op = "MoveTo" ->
                        LET s2 == [s1 EXCEPT !.start = cmd.to, !.prev = cmd.to, !.count = 0]
                        IN  IF ~s2.last_was_end
                            THEN [s |-> [s2 EXCEPT !.last_was_end = TRUE],
                                  out |-> SegEnd(FALSE)]
                            ELSE Segments_next_split_loop(s2)
                   [] cmd.op = "LineTo" ->
                        IF ~nearly_eq_by(from, cmd.to)
                        THEN [s |-> [s1 EXCEPT !.count = @ + 1, !.prev = cmd.to,
                                               !.last_was_end = FALSE],
                              out |-> SegLine(id, from, cmd.to)]
                        ELSE Segments_next_split_loop(s1)
                   [] cmd.op = "Close" ->
                        LET s2 == [s1 EXCEPT !.prev = s1.start]
                        IN  IF s2.count = 0 \/ ~nearly_eq_by(from, s2.start)
                            THEN [s |-> [s2 EXCEPT !.close = TRUE],
                                  out |-> SegLine(id, from, s2.start)]
                            ELSE [s |-> [s2 EXCEPT !.count = 0, !.last_was_end = TRUE],
                                  out |-> SegEnd(TRUE)]

\* Iterator::next for Segments created by segments(commands, true)
Segments_next_split(s) ==
    IF s.close
    THEN [s |-> [s EXCEPT !.close = FALSE, !.last_was_end = TRUE], out |-> SegEnd(TRUE)]
    ELSE Segments_next_split_loop(s)

\* StrokerStorage::collect: the segments up to the next End or to the end
\* of the source.
RECURSIVE StrokerStorage_collect(_, _)
StrokerStorage_collect(source, buf) ==
    LET r == Segments_next_split(source)
    IN  IF r.out = NoSegment
        THEN [source |-> r.s, segments |-> buf, is_closed |-> FALSE, done |-> TRUE]
        ELSE IF r.out.kind = "End"
        THEN [source |-> r.s, segments |-> buf, is_closed |-> r.out.closed, done |-> FALSE]
        ELSE StrokerStorage_collect(r.s, Append(buf, r.out))

\* get_signed (segments are numbered from 0 in the code)
get_signed(segments, index) ==
    IF index < 0 THEN segments[(Len(segments) - (-index)) + 1] ELSE segments[index + 1]

RECURSIVE SeqSum(_)
SeqSum(s) == IF s = <<>> THEN 0 ELSE Head(s) + SeqSum(Tail(s))

\* validate_dashes: the dashes, the offset and empty_gaps it returns.
validate_dashes(dashes, offset) ==
    LET len == Len(dashes)
        none == [dashes |-> <<>>, offset |-> 0, empty_gaps |-> FALSE]
        is_odd == len % 2 # 0
        is_gap(i) == (i - 1) % 2 = 1
        small_count == Cardinality({i \in 1..len : dashes[i] < 2})
        empty_gaps == \E i \in 1..len : dashes[i] = 0 /\ (is_gap(i) \/ is_odd)
        gaps == [i \in 1..len |-> IF dashes[i] >= 2 /\ is_gap(i) THEN dashes[i] ELSE 0]
        gap_sum == IF len = 1 THEN 2 ELSE SeqSum(gaps)
        s == IF is_odd THEN 2 * SeqSum(dashes) ELSE SeqSum(dashes)
    IN  IF len = 0 \/ \E i \in 1..len : dashes[i] < 0
        THEN none
        ELSE IF small_count < len /\ gap_sum > 0
        THEN [dashes |-> dashes,
              offset |-> IF offset # 0
                         THEN IF offset < 0 THEN s - (Abs(offset) % s) ELSE offset % s
                         ELSE 0,
              empty_gaps |-> empty_gaps]
        ELSE none

\* Dasher::default() with empty_gaps set, as Stroker::dash creates it
Dasher_default(empty_gaps) ==
    [done |-> FALSE, is_closed |-> FALSE, empty_gaps |-> empty_gaps, on |-> FALSE,
     cur |-> 0, t0 |-> Time(0, 1), t0_offset |-> 0, index |-> 0, is_first |-> FALSE,
     first_on |-> FALSE, first_dash |-> 0, is_dot |-> FALSE,
     range |-> <<0, 0>>, trange |-> <<Time(0, 1), Time(0, 1)>>]

\* The loop of Dasher::next_dash that joins the dashes around empty gaps
RECURSIVE next_dash_loop(_, _, _)
next_dash_loop(dashes, index, dash) ==
    LET len == Len(dashes)
    IN  IF dashes[((index + 1) % len) + 1] # 0
        THEN [index |-> index, dash |-> dash]
        ELSE next_dash_loop(dashes, index + 2,
                            F32Round(dash + dashes[((index + 2) % len) + 1]))

\* Dasher::next_dash
Dasher_next_dash(d, dashes) ==
    LET len == Len(dashes)
        dash == dashes[(d.index % len) + 1]
        r == IF d.on /\ d.empty_gaps
             THEN next_dash_loop(dashes, d.index, dash)
             ELSE [index |-> d.index, dash |-> dash]
    IN  [d |-> [d EXCEPT !.index = r.index + 1], dash |-> r.dash]

\* The loop of Dasher::init that consumes the offset
RECURSIVE Dasher_init_loop(_, _, _, _)
Dasher_init_loop(d, dashes, offset, accum) ==
    IF accum < offset
    THEN LET r == Dasher_next_dash([d EXCEPT !.on = ~d.on], dashes)
         IN  Dasher_init_loop(r.d, dashes, offset, F32Round(accum + r.dash))
    ELSE [d |-> d, accum |-> accum]

\* Dasher::init
Dasher_init(d, is_closed, dashes, offset) ==
    LET d0 == [d EXCEPT !.done = FALSE, !.is_closed = is_closed, !.on = TRUE, !.cur = 0,
                        !.t0 = Time(0, 1), !.t0_offset = 0, !.index = 0,
                        !.is_first = TRUE, !.first_on = TRUE]
        r == Dasher_next_dash(d0, dashes)
    IN  IF offset > 0
        THEN LET l == Dasher_init_loop(r.d, dashes, offset, r.dash)
             IN  [l.d EXCEPT !.first_on = l.d.on, !.first_dash = F32Round(l.accum - offset)]
        ELSE [r.d EXCEPT !.first_dash = r.dash]

\* The loop of Dasher::next_segments going on to the next segment when the
\* dash ends exactly where the segment ends.
RECURSIVE next_segments_loop_past_end(_, _, _, _)
next_segments_loop_past_end(segments, limit, cur, goal) ==
    LET td == Segment_time(get_signed(segments, cur), goal)
        rest == F32Round(goal - td.distance)
    IN  IF rest <= 0 /\ ~TimeEq(td.time, Time(1, 1))
        THEN [cont |-> TRUE, cur |-> cur, dist |-> td.distance, time |-> td.time]
        ELSE IF cur + 1 >= limit
        THEN [cont |-> FALSE, cur |-> cur, dist |-> td.distance, time |-> td.time]
        ELSE next_segments_loop_past_end(segments, limit, cur + 1, rest)

\* The loop of Dasher::next_segments
RECURSIVE next_segments_loop(_, _, _, _)
next_segments_loop(segments, limit, cur, goal) ==
    LET td == Segment_time(get_signed(segments, cur), goal)
        rest == F32Round(goal - td.distance)
    IN  IF rest <= 0
        THEN [cont |-> TRUE, cur |-> cur, dist |-> td.distance, time |-> td.time]
        ELSE IF cur + 1 >= limit
        THEN [cont |-> FALSE, cur |-> cur, dist |-> td.distance, time |-> td.time]
        ELSE next_segments_loop(segments, limit, cur + 1, rest)

\* Dasher::next_segments
Dasher_next_segments(dash, segments, limit, start, start_offset) ==
    next_segments_loop(segments, limit, start, F32Round(dash + start_offset))

\* Dasher::next, its last lines: the fields stored once the dash, whether it
\* is on, its start and its end are known, and Emit or Continue.
Dasher_next_store(d, dash, on, start, e, first_and_closed) ==
    LET stored == [d EXCEPT !.is_dot = (dash = 0), !.is_first = FALSE, !.cur = e.cur,
                            !.t0 = e.time, !.t0_offset = e.dist, !.on = ~d.on]
    IN  IF on /\ ~first_and_closed
        THEN [d |-> [stored EXCEPT !.range = <<start, e.cur>>, !.trange = <<d.t0, e.time>>],
              op |-> "Emit"]
        ELSE [d |-> stored, op |-> "Continue"]

\* Dasher::next without the branch on is_closed: what an open subpath gets.
Dasher_next_closing_open(d, dash, start, e, first_and_closed, segments) ==
    IF d.done /\ ~d.on
    THEN [d |-> d, op |-> "Done"]
    ELSE Dasher_next_store(d, dash, d.on, start, e, first_and_closed)

\* Dasher::next, the branch on done and is_closed: a final "on" dash of a
\* closed subpath is joined to the first dash, a final "off" dash is
\* followed by the first dash that was skipped.
Dasher_next_closing(d, dash, start, e, first_and_closed, segments) ==
    LET limit == Len(segments)
        first == Dasher_next_segments(d.first_dash, segments, limit, 0, 0)
    IN  IF d.done /\ d.is_closed
        THEN IF d.on
             THEN IF first_and_closed
                  THEN [d |-> d, op |-> "Stroke"]
                  ELSE IF d.first_on
                  THEN Dasher_next_store([d EXCEPT !.cur = start - limit], dash, TRUE,
                                         start - limit, first, first_and_closed)
                  ELSE Dasher_next_store(d, dash, TRUE, start, e, first_and_closed)
             ELSE IF ~d.first_on
                  THEN [d |-> d, op |-> "Done"]
                  ELSE Dasher_next_store([d EXCEPT !.cur = 0, !.t0 = Time(0, 1),
                                                   !.t0_offset = 0, !.on = TRUE],
                                         d.first_dash, TRUE, 0, first, first_and_closed)
        ELSE IF d.done /\ ~d.on
        THEN [d |-> d, op |-> "Done"]
        ELSE Dasher_next_store(d, dash, d.on, start, e, first_and_closed)

\* Dasher::next, from the dash to its end: the end of the dash, and done
\* when the segments end before it.
Dasher_next_span(d, dash, first_and_closed, segments) ==
    LET e == IF dash = 0
             THEN [cont |-> TRUE, cur |-> d.cur, dist |-> d.t0_offset, time |-> d.t0]
             ELSE Dasher_next_segments(dash, segments, Len(segments), d.cur, d.t0_offset)
    IN  Dasher_next_closing([d EXCEPT !.done = ~e.cont], dash, d.cur, e,
                            first_and_closed, segments)

\* Dasher::next: the Dasher afterwards and the DashOp returned.
Dasher_next(d, segments, dashes) ==
    IF d.done
    THEN [d |-> d, op |-> "Done"]
    ELSE LET nd == IF d.is_first THEN [d |-> d, dash |-> d.first_dash]
                                 ELSE Dasher_next_dash(d, dashes)
         IN  Dasher_next_span(
                 IF TimeEq(nd.d.t0, Time(1, 1)) /\ nd.d.cur < Len(segments) - 1
                 THEN [nd.d EXCEPT !.cur = @ + 1, !.t0 = Time(0, 1), !.t0_offset = 0]
                 ELSE nd.d,
                 nd.dash, d.is_first /\ d.is_closed, segments)

\* Segment::slice, kept as the segment and the two times it is cut at
Segment_slice(segment, start, end) == [segment |-> segment, start |-> start, end |-> end]

\* The outlines a call sends to the sink: each is the sequence of slices
\* whose offset curves it runs along (forward, then reversed), closed.
Outline(kind, slices) == [kind |-> kind, slices |-> slices]

\* Stroker::stroke_segments
Stroker_stroke_segments(style, segments, is_closed) ==
    IF Len(segments) = 0
    THEN <<>>
    ELSE IF /\ Len(segments) = 1
            /\ Vector_length(Vector_sub(segments[1].b, segments[1].a)) = 0
            /\ (style.start_cap # "Butt" \/ style.end_cap # "Butt")
    THEN <<Outline("point", <<Segment_slice(segments[1], Time(0, 1), Time(0, 1))>>)>>
    ELSE <<Outline(IF is_closed THEN "closed" ELSE "open",
                   [i \in 1..Len(segments) |->
                        Segment_slice(segments[i], Time(0, 1), Time(1, 1))])>>

\* Stroker::dash_segments
Stroker_dash_segments(style, segments, start, end, t0, t1) ==
    IF TimeEq(t0, t1) /\ start = end
    THEN IF style.start_cap = "Butt" /\ style.end_cap = "Butt"
         THEN <<>>
         ELSE LET s0 == IF TimeGe(t0, Time(1, 1))
                        THEN Time(t0.num * 1000 - t0.den, t0.den * 1000) ELSE t0
                  s1 == IF TimeGe(t0, Time(1, 1))
                        THEN t0 ELSE Time(t0.num * 1000 + t0.den, t0.den * 1000)
              IN  <<Outline("dot", <<Segment_slice(get_signed(segments, start), s0, s1)>>)>>
    ELSE LET time0(i) == IF i = start THEN t0 ELSE Time(0, 1)
             time1(i) == IF i = end THEN t1 ELSE Time(1, 1)
             all == [k \in 1..((end - start) + 1) |-> start + (k - 1)]
             kept == SelectSeq(all, LAMBDA i : ~TimeGe(time0(i), Time(1, 1)))
         IN  <<Outline("open", [k \in 1..Len(kept) |->
                        Segment_slice(get_signed(segments, kept[k]),
                                      time0(kept[k]), time1(kept[k]))])>>

\* stroke_into before it validates the dashes: the commands, the style, the
\* Stroker's source and buffer, the validated dashes, the Dasher and the sink.
Stroker_new(commands, style) ==
    [pc |-> "start", commands |-> commands, style |-> style,
     source |-> Segments_new(commands), segments |-> <<>>, is_closed |-> FALSE,
     done |-> FALSE, dashes |-> <<>>, dash_offset |-> 0,
     dasher |-> Dasher_default(FALSE), sink |-> <<>>]

\* stroke_into: validate_dashes and the choice between dash and stroke
stroke_into(r) ==
    LET v == validate_dashes(r.style.dashes, r.style.offset)
    IN  [r EXCEPT !.pc = IF Len(v.dashes) > 0 THEN "collect" ELSE "stroke",
                  !.dashes = v.dashes, !.dash_offset = v.offset,
                  !.dasher = Dasher_default(v.empty_gaps)]

\* Stroker::stroke
RECURSIVE Stroker_stroke(_)
Stroker_stroke(r) ==
    LET c == StrokerStorage_collect(r.source, <<>>)
        r1 == [r EXCEPT !.source = c.source, !.segments = c.segments,
                        !.is_closed = c.is_closed, !.done = c.done,
                        !.sink = @ \o Stroker_stroke_segments(r.style, c.segments, c.is_closed)]
    IN  IF c.done THEN [r1 EXCEPT !.pc = "end"] ELSE Stroker_stroke(r1)

\* Stroker::dash, the head of the outer loop: collect a subpath and, when
\* it has segments, init the Dasher for it.
Stroker_dash_collect(r) ==
    LET c == StrokerStorage_collect(r.source, <<>>)
        r1 == [r EXCEPT !.source = c.source, !.segments = c.segments,
                        !.is_closed = c.is_closed, !.done = c.done]
    IN  IF c.segments = <<>>
        THEN [r1 EXCEPT !.pc = IF c.done THEN "end" ELSE "collect"]
        ELSE [r1 EXCEPT !.pc = "next",
                        !.dasher = Dasher_init(r.dasher, c.is_closed, r.dashes, r.dash_offset)]

\* Stroker::dash, one round of the inner loop
Stroker_dash_next(r) ==
    LET n == Dasher_next(r.dasher, r.segments, r.dashes)
        after == IF r.done THEN "end" ELSE "collect"
    IN  CASE n.op = "Done" -> [r EXCEPT !.dasher = n.d, !.pc = after]
          [] n.op = "Continue" -> [r EXCEPT !.dasher = n.d]
          [] n.op = "Emit" ->
                [r EXCEPT !.dasher = n.d,
                          !.sink = @ \o Stroker_dash_segments(r.style, r.segments,
                                            n.d.range[1], n.d.range[2],
                                            n.d.trange[1], n.d.trange[2])]
          [] n.op = "Stroke" ->
                [r EXCEPT !.dasher = n.d, !.pc = after,
                          !.sink = @ \o Stroker_stroke_segments(r.style, r.segments, TRUE)]

\* The inputs: paths (the first subpath starts at the origin when no MoveTo
\* opens it), dash arrays, offsets, caps.
DashPoints == {Point(0, 0), Point(8, 0), Point(8, 6)}
DashCommands == {LineTo(p) : p \in DashPoints} \cup {MoveTo(Point(8, 6)), Close}
DashValues == {0, 1, 3}

RECURSIVE DashPaths(_)
DashPaths(n) ==
    IF n = 0 THEN {<<>>}
    ELSE LET shorter == DashPaths(n - 1)
         IN  shorter \cup {Append(l, c) : l \in {t \in shorter : Len(t) = n - 1},
                                           c \in DashCommands}

RECURSIVE DashArrays(_, _)
DashArrays(values, n) ==
    IF n = 0 THEN {<<>>}
    ELSE LET shorter == DashArrays(values, n - 1)
         IN  shorter \cup {Append(l, v) : l \in {t \in shorter : Len(t) = n - 1},
                                           v \in values}

Stroke(dashes, offset, start_cap, end_cap) ==
    [dashes |-> dashes, offset |-> offset, start_cap |-> start_cap, end_cap |-> end_cap]

\* The line of scenario S5, `M 0,10 L 100,10` with dashes [10, 10], in halves.
S5Commands == <<MoveTo(Point(0, 20)), LineTo(Point(200, 20))>>
S5Stroke == Stroke(<<20, 20>>, 0, "Butt", "Butt")

\* A path of two open subpaths.
TwoSubpaths == <<LineTo(Point(8, 0)), MoveTo(Point(8, 6)), LineTo(Point(0, 0))>>

\* The stroke_into calls of the model: dashed with offset 0.
StrokeInputs ==
    {Stroker_new(c, Stroke(d, 0, caps[1], caps[2])) :
        c \in DashPaths(MaxDashCmds) \cup {TwoSubpaths},
        d \in DashArrays(DashValues, MaxDashLen), caps \in CapPairs}
    \cup {Stroker_new(S5Commands, S5Stroke)}

\* The stroke_into calls with closed subpaths in view: dashes that end on a
\* segment end (8), on the end of a subpath (16, 24) and beyond it (30),
\* and offsets into the first dash, onto its end and into the gap.
WrapValues == {3, 8, 16, 24, 30}
WrapOffsets == {0, 2, 3, 5}

WrapInputs(n) ==
    {Stroker_new(c, Stroke(d, o, caps[1], caps[2])) :
        c \in DashPaths(n), d \in DashArrays(WrapValues, MaxWrapLen),
        o \in WrapOffsets, caps \in CapPairs}

StrokeStart ==
    /\ sys \in {"stroke", "wrap"}
    /\ stroke.pc = "start"
    /\ stroke' = stroke_into(stroke)
    /\ UNCHANGED nonStrokeVars

StrokeUndashed ==
    /\ sys \in {"stroke", "wrap"}
    /\ stroke.pc = "stroke"
    /\ stroke' = Stroker_stroke(stroke)
    /\ UNCHANGED nonStrokeVars

DashCollect ==
    /\ sys \in {"stroke", "wrap"}
    /\ stroke.pc = "collect"
    /\ stroke' = Stroker_dash_collect(stroke)
    /\ UNCHANGED nonStrokeVars

DashNext ==
    /\ sys \in {"stroke", "wrap"}
    /\ stroke.pc = "next"
    /\ stroke' = Stroker_dash_next(stroke)
    /\ UNCHANGED nonStrokeVars

StrokeNext == StrokeStart \/ StrokeUndashed \/ DashCollect \/ DashNext

(***************************************************************************)
(* stroke.rs: a dash array of odd length beside the array written twice.   *)
(* Two stroke_into calls with the same commands, offset and caps, one with *)
(* dashes d of odd length, one with d ++ d.                                *)
(***************************************************************************)
OddValues == {-1, 0, 1, 2, 3}
OddOffsets == {-3, 0, 3, 7}
OddCommands == <<LineTo(Point(8, 0)), LineTo(Point(8, 6))>>

OddInputs ==
    {<<OddCommands, Stroke(d, o, caps[1], caps[2])>> :
        d \in {a \in DashArrays(OddValues, MaxOddLen) : Len(a) % 2 = 1},
        o \in OddOffsets, caps \in CapPairs}

\* Each action is one step of stroke_into, taken by the calls that are at it.
\* stroke_into: validate_dashes and the choice between dash and stroke
OddStart ==
    /\ sys = "odd"
    /\ oddA.pc = "start" \/ oddB.pc = "start"
    /\ oddA' = IF oddA.pc = "start" THEN stroke_into(oddA) ELSE oddA
    /\ oddB' = IF oddB.pc = "start" THEN stroke_into(oddB) ELSE oddB
    /\ UNCHANGED nonOddVars

\* Stroker::stroke, for dashes that were rejected
OddUndashed ==
    /\ sys = "odd"
    /\ oddA.pc = "stroke" \/ oddB.pc = "stroke"
    /\ oddA' = IF oddA.pc = "stroke" THEN Stroker_stroke(oddA) ELSE oddA
    /\ oddB' = IF oddB.pc = "stroke" THEN Stroker_stroke(oddB) ELSE oddB
    /\ UNCHANGED nonOddVars

\* Stroker::dash, the head of the outer loop
OddCollect ==
    /\ sys = "odd"
    /\ oddA.pc = "collect" \/ oddB.pc = "collect"
    /\ oddA' = IF oddA.pc = "collect" THEN Stroker_dash_collect(oddA) ELSE oddA
    /\ oddB' = IF oddB.pc = "collect" THEN Stroker_dash_collect(oddB) ELSE oddB
    /\ UNCHANGED nonOddVars

\* Stroker::dash, one round of the inner loop
OddDashNext ==
    /\ sys = "odd"
    /\ oddA.pc = "next" \/ oddB.pc = "next"
    /\ oddA' = IF oddA.pc = "next" THEN Stroker_dash_next(oddA) ELSE oddA
    /\ oddB' = IF oddB.pc = "next" THEN Stroker_dash_next(oddB) ELSE oddB
    /\ UNCHANGED nonOddVars

OddNext == OddStart \/ OddUndashed \/ OddCollect \/ OddDashNext

(***************************************************************************)
(* raster.rs: AdaptiveStorage.  The inline arrays start uninitialised: an  *)
(* element that was never written holds Uninit here, and reading one as a  *)
(* cell or an index stops the evaluation.                                  *)
(***************************************************************************)
MAX_CELLS == 1024
MAX_BAND == 512
Uninit == "uninit"

\* AdaptiveStorage::new
AdaptiveStorage_new ==
    [min |-> FixedPoint(0, 0), max |-> FixedPoint(0, 0), height |-> 0, cell_count |-> 0,
     cells |-> [i \in 1..MAX_CELLS |-> Uninit], heap_cells |-> <<>>,
     indices |-> [i \in 1..MAX_BAND |-> Uninit], heap_indices |-> <<>>]

\* AdaptiveStorage::reset
AdaptiveStorage_reset(s, min, max) ==
    LET height == max.y - min.y
    IN  [s EXCEPT !.min = min, !.max = max, !.height = height, !.cell_count = 0,
                  !.heap_cells = <<>>,
                  !.heap_indices = IF height > MAX_BAND THEN [i \in 1..height |-> -1] ELSE <<>>,
                  !.indices = IF height > MAX_BAND THEN @
                              ELSE [i \in 1..MAX_BAND |-> IF i <= height THEN -1 ELSE @[i]]]

\* AdaptiveStorage::cells
AdaptiveStorage_cells(s) == IF s.cell_count > MAX_CELLS THEN s.heap_cells ELSE s.cells

\* AdaptiveStorage::indices
AdaptiveStorage_indices(s) ==
    IF s.height > MAX_BAND THEN s.heap_indices ELSE SubSeq(s.indices, 1, s.height)

\* The list walk of AdaptiveStorage::set
RECURSIVE AdaptiveStorage_find(_, _, _, _)
AdaptiveStorage_find(cells, x, cell_index, last_index) ==
    IF cell_index = -1
    THEN [hit |-> FALSE, cell_index |-> cell_index, last_index |-> last_index]
    ELSE LET cell == cells[cell_index + 1]
         IN  IF cell.x > x
             THEN [hit |-> FALSE, cell_index |-> cell_index, last_index |-> last_index]
             ELSE IF cell.x = x
             THEN [hit |-> TRUE, cell_index |-> cell_index, last_index |-> last_index]
             ELSE AdaptiveStorage_find(cells, x, cell.next, cell_index)

\* AdaptiveStorage::set with the spill to the heap left out: past MAX_CELLS
\* the cell is counted and linked but stored nowhere.
AdaptiveStorage_store_inline_only(s, cells, on_heap, new_index, cell) ==
    IF on_heap THEN [s EXCEPT !.heap_cells = [cells EXCEPT ![new_index + 1] = cell]]
               ELSE [s EXCEPT !.cells = [cells EXCEPT ![new_index + 1] = cell]]

\* AdaptiveStorage::set, its last lines: the new cell goes into the slice
\* in use, or onto the heap, which first takes over the inline cells.
AdaptiveStorage_store(s, cells, on_heap, new_index, cell) ==
    IF new_index < MAX_CELLS
    THEN IF on_heap THEN [s EXCEPT !.heap_cells = [cells EXCEPT ![new_index + 1] = cell]]
                    ELSE [s EXCEPT !.cells = [cells EXCEPT ![new_index + 1] = cell]]
    ELSE [s EXCEPT !.heap_cells = Append(IF @ = <<>> THEN s.cells ELSE @, cell)]

\* AdaptiveStorage::set
AdaptiveStorage_set(s, x, y, area, cover) ==
    LET yindex == y - s.min.y
        on_heap == s.heap_cells # <<>>
        band_heap == s.height > MAX_BAND
        indices == IF band_heap THEN s.heap_indices ELSE s.indices
        cells == IF on_heap THEN s.heap_cells ELSE s.cells
        f == AdaptiveStorage_find(cells, x, indices[yindex + 1], -1)
    IN  IF f.hit
        THEN LET added == [cells EXCEPT ![f.cell_index + 1].area = WrappingAdd(@, area),
                                        ![f.cell_index + 1].cover = WrappingAdd(@, cover)]
             IN  IF on_heap THEN [s EXCEPT !.heap_cells = added]
                            ELSE [s EXCEPT !.cells = added]
        ELSE LET new_index == s.cell_count
                 cell == Cell(x, cover, area, f.cell_index)
                 counted == [s EXCEPT !.cell_count = @ + 1]
                 relinked == [cells EXCEPT ![f.last_index + 1].next = new_index]
                 linked == IF f.last_index # -1
                           THEN IF on_heap THEN [counted EXCEPT !.heap_cells = relinked]
                                           ELSE [counted EXCEPT !.cells = relinked]
                           ELSE IF band_heap
                                THEN [counted EXCEPT !.heap_indices[yindex + 1] = new_index]
                                ELSE [counted EXCEPT !.indices[yindex + 1] = new_index]
             IN  AdaptiveStorage_store(linked,
                                       IF on_heap THEN linked.heap_cells ELSE linked.cells,
                                       on_heap, new_index, cell)

(***************************************************************************)
(* The two storages side by side: both are given the same reset and set    *)
(* calls.  sums records, per (x, y) set since the last reset, the          *)
(* contributions made there, in order; spilled, whether the               *)
(* AdaptiveStorage has ever moved its cells to the heap.                   *)
(***************************************************************************)
StoreNew ==
    [heap |-> HeapStorageNew, adaptive |-> AdaptiveStorage_new,
     sums |-> <<>>, height |-> 0, resets |-> 0, sets |-> 0, filled |-> FALSE,
     spilled |-> FALSE]

\* One set call on both storages.
SetBoth(st, x, y, area, cover) ==
    [st EXCEPT !.heap = HeapStorage_set(@, x, y, area, cover),
               !.adaptive = AdaptiveStorage_set(@, x, y, area, cover),
               !.sums = IF <<x, y>> \in DOMAIN @
                        THEN [@ EXCEPT ![<<x, y>>] = Append(@, [area |-> area, cover |-> cover])]
                        ELSE @ @@ (<<x, y>> :> <<[area |-> area, cover |-> cover]>>)]

\* The set calls number lo..hi - 1 of a run that covers the rows one cell at
\* a time (a shape wider than it is dense), made in order: the first half
\* of the run is finished before the second begins.
RECURSIVE FillFrom(_, _, _)
FillFrom(st, lo, hi) ==
    IF hi <= lo THEN st
    ELSE IF hi = lo + 1 THEN SetBoth(st, lo \div st.height, lo % st.height, 1, 1)
    ELSE LET mid == (lo + hi) \div 2
             half == FillFrom(st, lo, mid)
         IN  IF half.height = st.height THEN FillFrom(half, mid, hi) ELSE half

StoreHeights == {3, MAX_BAND, MAX_BAND + 1}
StoreColumns == {-1, 1, 2000}
StoreAmounts == {<<1, 1>>, <<I32_MAX, I32_MIN>>}

\* The two storages where no behaviour constructs them
StoreIdle == [resets |-> 0, sets |-> 0]

\* storage.reset(min, max) as rasterize calls it
StoreReset ==
    /\ sys = "store"
    /\ store.resets < MaxStoreResets
    /\ \E h \in StoreHeights :
          store' = [store EXCEPT
                      !.heap = HeapStorage_reset(@, FixedPoint(0, 0), FixedPoint(4, h)),
                      !.adaptive = AdaptiveStorage_reset(@, FixedPoint(0, 0), FixedPoint(4, h)),
                      !.sums = <<>>, !.height = h, !.resets = @ + 1, !.filled = FALSE]
    /\ UNCHANGED nonStoreVars

\* MAX_CELLS set calls in a row, all to different cells: the inline cells
\* are full, the next new cell spills to the heap.
StoreFill ==
    /\ sys = "store"
    /\ store.resets = 1
    /\ store.height >= MAX_BAND
    /\ store.sums = <<>>
    /\ store' = [FillFrom(store, 0, MAX_CELLS) EXCEPT !.filled = TRUE]
    /\ UNCHANGED nonStoreVars

\* storage.set(x, y, area, cover)
StoreSet ==
    /\ sys = "store"
    /\ store.resets > 0
    /\ store.sets < MaxStoreSets
    /\ \E x \in StoreColumns, y \in {0, store.height - 1}, a \in StoreAmounts :
          LET after == SetBoth(store, x, y, a[1], a[2])
          IN  store' = [after EXCEPT !.sets = @ + 1,
                                     !.spilled = @ \/ after.adaptive.heap_cells # <<>>]
    /\ UNCHANGED nonStoreVars

StoreNext == StoreReset \/ StoreFill \/ StoreSet

(***************************************************************************)
(* segment.rs: Curve::solve in the case of three real roots, and           *)
(* split_at_max_curvature.  The three candidates are the values satf32     *)
(* has clamped to [0, 1]; the model counts them in steps of 1 / MaxRoot.   *)
(***************************************************************************)
\* sort_unstable_by(partial_cmp) on three values
Sort3(ts) ==
    LET lo == IF ts[1] <= ts[2] /\ ts[1] <= ts[3] THEN ts[1]
              ELSE IF ts[2] <= ts[3] THEN ts[2] ELSE ts[3]
        hi == IF ts[1] >= ts[2] /\ ts[1] >= ts[3] THEN ts[1]
              ELSE IF ts[2] >= ts[3] THEN ts[2] ELSE ts[3]
    IN  <<lo, ((ts[1] + ts[2]) + ts[3]) - (lo + hi), hi>>

\* Curve::solve, r2_sub_q3 < 0: ts and the count it returns
Curve_solve(cands) ==
    LET s == Sort3(cands)
        first == s[1] = s[2]
        ts == IF first THEN <<s[1], s[3], s[3]>> ELSE s
        count == IF first THEN 2 ELSE 3
    IN  [ts |-> ts, count |-> IF ts[2] = ts[3] THEN count - 1 ELSE count]

\* Curve::split_at_max_curvature: the times the curve is cut at
Curve_split_at_max_curvature(cands) ==
    LET r == Curve_solve(cands)
    IN  SelectSeq(SubSeq(r.ts, 1, r.count), LAMBDA t : t > 0 /\ t < MaxRoot)

Candidates == [1..3 -> 0..MaxRoot]

SolverNew(cands) ==
    [cands |-> cands, solved |-> FALSE, roots |-> [ts |-> <<0, 0, 0>>, count |-> 0],
     split |-> FALSE, cuts |-> <<>>]

\* Curve::solve(coeffs, ts)
Solve ==
    /\ sys = "solve"
    /\ ~solver.solved
    /\ solver' = [solver EXCEPT !.solved = TRUE, !.roots = Curve_solve(solver.cands)]
    /\ UNCHANGED nonSolveVars

\* curve.split_at_max_curvature(splits)
SplitAtMaxCurvature ==
    /\ sys = "solve"
    /\ ~solver.split
    /\ solver' = [solver EXCEPT !.split = TRUE,
                                !.cuts = Curve_split_at_max_curvature(solver.cands)]
    /\ UNCHANGED nonSolveVars

SolveNext == Solve \/ SplitAtMaxCurvature

(***************************************************************************)
(* segment.rs: Segments over paths with curves.  What split_curve makes of *)
(* a curve is decided by its geometry (split_at_max_curvature,             *)
(* needs_split, split); a CurveTo or QuadTo of the model carries the       *)
(* outcome with it: whether the curve is flat (is_line), and the points    *)
(* where it is cut (mids), the end point of the last fragment being the    *)
(* end point of the curve.                                                 *)
(***************************************************************************)
\* A piece between two cuts at maximum curvature: whether it, its first
\* half and its second half need splitting, the points at a quarter, a half
\* and three quarters of it, and its end point.
Piece(needs, at, to) == [needs |-> needs, at |-> at, to |-> to]
WholePiece(to) == Piece(<<FALSE, FALSE, FALSE>>, <<to, to, to>>, to)

\* A curve cut at maximum curvature only
PiecesOf(mids, to) ==
    [k \in 1..(Len(mids) + 1) |-> WholePiece((mids \o <<to>>)[k])]

CurvePlan(pieces, to) == [op |-> "CurveTo", pieces |-> pieces, to |-> to, flat |-> FALSE]
CurveCut(mids, to, flat) ==
    [op |-> "CurveTo", pieces |-> PiecesOf(mids, to), to |-> to, flat |-> flat]
QuadCut(mids, to, flat) ==
    [op |-> "QuadTo", pieces |-> PiecesOf(mids, to), to |-> to, flat |-> flat]
SegCurve(id, a, d) == [kind |-> "Curve", id |-> id, a |-> a, b |-> d]

\* The id no segment has: last_id before the first segment of a pass
NO_ID == 255

\* The length of Segments::splits
SPLITS_LEN == 16

\* Segments::new(true, commands)
Segments_new_split(commands) ==
    [commands |-> commands, at |-> 0,
     start |-> Point(0, 0), prev |-> Point(0, 0),
     close |-> FALSE, last_was_end |-> TRUE, id |-> 0, count |-> 0,
     splits |-> [k \in 1..SPLITS_LEN |-> [a |-> Point(0, 0), d |-> Point(0, 0)]],
     split_count |-> 0, split_index |-> 0, panic |-> FALSE]

\* Curve::to_segment: a fragment whose ends coincide is a line of no
\* length and is dropped.
Curve_to_segment(curve, id) ==
    IF nearly_eq_by(curve.a, curve.d) THEN NoSegment ELSE SegCurve(id, curve.a, curve.d)

\* self.splits[i] = curve: an index past the array panics
splits_set(s, i, a, d) ==
    IF i < SPLITS_LEN
    THEN [s EXCEPT !.splits[i + 1] = [a |-> a, d |-> d]]
    ELSE [s EXCEPT !.panic = TRUE]

\* Segments::split_curve, one half of a piece: the half from a to d, or its
\* two halves when it needs splitting; i afterwards
split_curve_half(r, needs, a, mid, d) ==
    IF needs
    THEN [s |-> splits_set(splits_set(r.s, r.i, a, mid), r.i + 1, mid, d), i |-> r.i + 2]
    ELSE [s |-> splits_set(r.s, r.i, a, d), i |-> r.i + 1]

\* Segments::split_curve, "for j in 0..count"
RECURSIVE split_curve_loop(_, _, _, _)
split_curve_loop(r, pieces, j, from) ==
    IF j > Len(pieces) THEN r
    ELSE LET p == pieces[j]
             after == IF p.needs[1]
                      THEN split_curve_half(
                               split_curve_half(r, p.needs[2], from, p.at[1], p.at[2]),
                               p.needs[3], p.at[2], p.at[3], p.to)
                      ELSE [s |-> splits_set(r.s, r.i, from, p.to), i |-> r.i + 1]
         IN  split_curve_loop(after, pieces, j + 1, p.to)

\* Segments::split_curve with split_index left at 0
split_curve_index_zero(s, id, from, cmd) ==
    LET r == split_curve_loop([s |-> s, i |-> 0], cmd.pieces, 1, from)
    IN  [s |-> [r.s EXCEPT !.split_count = r.i, !.split_index = 0],
         out |-> Curve_to_segment(r.s.splits[1], id)]

\* Segments::split_curve
split_curve(s, id, from, cmd) ==
    IF cmd.flat
    THEN [s |-> s,
          out |-> IF nearly_eq_by(from, cmd.to) THEN NoSegment ELSE SegLine(id, from, cmd.to)]
    ELSE LET r == split_curve_loop([s |-> s, i |-> 0], cmd.pieces, 1, from)
         IN  IF r.s.panic
             THEN [s |-> r.s, out |-> NoSegment]
             ELSE [s |-> [r.s EXCEPT !.split_count = r.i, !.split_index = 1],
                   out |-> Curve_to_segment(r.s.splits[1], id)]

\* The loop of Segments::next with splitting
RECURSIVE Segments_next_curves_loop(_)
Segments_next_curves_loop(s0) ==
    IF s0.panic THEN [s |-> s0, out |-> NoSegment]
    ELSE IF s0.split_index < s0.split_count
    THEN LET curve == s0.splits[s0.split_index + 1]
             s1 == [s0 EXCEPT !.split_index = @ + 1]
             segment == Curve_to_segment(curve, s0.id)
         IN  IF segment # NoSegment
             THEN [s |-> [s1 EXCEPT !.count = @ + 1, !.last_was_end = FALSE,
                                    !.prev = curve.d],
                   out |-> segment]
             ELSE Segments_next_curves_loop(s1)
    ELSE LET s == inc_id(s0)
             id == s.id
             from == s.prev
         IN  IF s.at >= Len(s.commands)
             THEN [s |-> s, out |-> NoSegment]
             ELSE LET cmd == s.commands[s.at + 1]
                      s1 == [s EXCEPT !.at = @ + 1]
                  IN  CASE cmd.op = "MoveTo" ->
                             LET s2 == [s1 EXCEPT !.start = cmd.to, !.prev = cmd.to,
                                                  !.count = 0]
                             IN  IF ~s2.last_was_end
                                 THEN [s |-> [s2 EXCEPT !.last_was_end = TRUE],
                                       out |-> SegEnd(FALSE)]
                                 ELSE Segments_next_curves_loop(s2)
                        [] cmd.op = "LineTo" ->
                             IF ~nearly_eq_by(from, cmd.to)
                             THEN [s |-> [s1 EXCEPT !.count = @ + 1, !.prev = cmd.to,
                                                    !.last_was_end = FALSE],
                                   out |-> SegLine(id, from, cmd.to)]
                             ELSE Segments_next_curves_loop(s1)
                        [] cmd.op \in {"CurveTo", "QuadTo"} ->
                             LET r == split_curve(s1, id, from, cmd)
                             IN  IF r.out # NoSegment
                                 THEN [s |-> [r.s EXCEPT !.count = @ + 1, !.prev = cmd.to,
                                                         !.last_was_end = FALSE],
                                       out |-> r.out]
                                 ELSE Segments_next_curves_loop(r.s)
                        [] cmd.op = "Close" ->
                             LET s2 == [s1 EXCEPT !.prev = s1.start]
                             IN  IF s2.count = 0 \/ ~nearly_eq_by(from, s2.start)
                                 THEN [s |-> [s2 EXCEPT !.close = TRUE],
                                       out |-> SegLine(id, from, s2.start)]
                                 ELSE [s |-> [s2 EXCEPT !.count = 0, !.last_was_end = TRUE],
                                       out |-> SegEnd(TRUE)]

\* Iterator::next without the pending End: the close flag is dropped.
Segments_next_curves_no_end(s) ==
    Segments_next_curves_loop([s EXCEPT !.close = FALSE])

\* Iterator::next for Segments, split == true
Segments_next_curves(s) ==
    IF s.close
    THEN [s |-> [s EXCEPT !.close = FALSE, !.last_was_end = TRUE], out |-> SegEnd(TRUE)]
    ELSE Segments_next_curves_loop(s)

\* The loop of Segments::next without splitting, curves included
RECURSIVE Segments_next_whole_loop(_, _)
Segments_next_whole_loop(s, id) ==
    IF s.at >= Len(s.commands)
    THEN [s |-> s, out |-> NoSegment]
    ELSE LET cmd == s.commands[s.at + 1]
             s1 == [s EXCEPT !.at = @ + 1]
             from == s.prev
         IN  CASE cmd.op = "MoveTo" ->
                    LET s2 == [s1 EXCEPT !.start = cmd.to, !.prev = cmd.to, !.count = 0]
                    IN  IF ~s2.last_was_end
                        THEN [s |-> [s2 EXCEPT !.last_was_end = TRUE], out |-> SegEnd(FALSE)]
                        ELSE Segments_next_whole_loop(s2, id)
               [] cmd.op = "LineTo" ->
                    IF ~nearly_eq_by(from, cmd.to)
                    THEN [s |-> [s1 EXCEPT !.count = @ + 1, !.prev = cmd.to,
                                           !.last_was_end = FALSE],
                          out |-> SegLine(id, from, cmd.to)]
                    ELSE Segments_next_whole_loop(s1, id)
               [] cmd.op \in {"CurveTo", "QuadTo"} ->
                    [s |-> [s1 EXCEPT !.count = @ + 1, !.prev = cmd.to,
                                      !.last_was_end = FALSE],
                     out |-> SegCurve(id, from, cmd.to)]
               [] cmd.op = "Close" ->
                    LET s2 == [s1 EXCEPT !.prev = s1.start]
                    IN  IF s2.count = 0 \/ ~nearly_eq_by(from, s2.start)
                        THEN [s |-> [s2 EXCEPT !.close = TRUE],
                              out |-> SegLine(id, from, s2.start)]
                        ELSE [s |-> [s2 EXCEPT !.count = 0, !.last_was_end = TRUE],
                              out |-> SegEnd(TRUE)]

\* Iterator::next for Segments, split == false
Segments_next_whole(s) ==
    IF s.close
    THEN [s |-> [s EXCEPT !.close = FALSE, !.last_was_end = TRUE], out |-> SegEnd(TRUE)]
    ELSE Segments_next_whole_loop(inc_id(s), s.id)

(***************************************************************************)
(* The two iterators over one path.  Each yield is kept with the number of *)
(* commands the iterator had pulled when it returned: the command the      *)
(* segment comes from.                                                     *)
(***************************************************************************)
SegP0 == Point(0, 0)
SegP1 == Point(4, 0)
SegP2 == Point(4, 3)
SegP3 == Point(0, 3)

\* A curve in one fragment, in three, in three with the first and with the
\* last of no length, a flat curve, and a flat quadratic of no length.
SegCommands ==
    {MoveTo(SegP1), LineTo(SegP0), LineTo(SegP1), Close,
     CurveCut(<<>>, SegP2, FALSE),
     CurveCut(<<SegP1, SegP0>>, SegP2, FALSE),
     CurveCut(<<SegP0, SegP2>>, SegP2, FALSE),
     QuadCut(<<>>, SegP0, TRUE)}

RECURSIVE SegPaths(_)
SegPaths(n) ==
    IF n = 0 THEN {<<>>}
    ELSE LET shorter == SegPaths(n - 1)
         IN  shorter \cup {Append(l, c) : l \in {t \in shorter : Len(t) = n - 1},
                                           c \in SegCommands}

\* A path long enough for the ids to come round: lines to and fro, every
\* fifth command a curve in three fragments.
LongPath ==
    [k \in 1..MaxSegLong |->
        IF k % 5 = 0 THEN CurveCut(<<SegP1, SegP0>>, IF k % 2 = 0 THEN SegP2 ELSE SegP1, FALSE)
        ELSE LineTo(IF k % 2 = 0 THEN SegP2 ELSE SegP1)]

SegInputs == SegPaths(MaxSegCmds) \cup {LongPath}

\* What needs_split says of a piece and of its two halves
PieceNeeds ==
    {<<FALSE, FALSE, FALSE>>} \cup {<<TRUE, na, nb>> : na, nb \in BOOLEAN}

\* The pieces of a curve that starts at SegP0: with fragments that all have
\* a length ("all"), of which only the first has one ("head"), and of which
\* only the last has one ("tail").
PlanPieces(needs, lengths) ==
    [j \in 1..Len(needs) |->
        CASE lengths = "all" ->
               Piece(needs[j], <<SegP1, SegP2, SegP1>>, IF j % 2 = 1 THEN SegP3 ELSE SegP0)
          [] lengths = "head" -> Piece(needs[j], <<SegP3, SegP3, SegP3>>, SegP3)
          [] lengths = "tail" ->
               Piece(needs[j], <<SegP0, SegP0, SegP0>>,
                     IF j = Len(needs) THEN SegP3 ELSE SegP0)]

PlanCurve(needs, lengths) ==
    LET pieces == PlanPieces(needs, lengths)
    IN  CurvePlan(pieces, pieces[Len(pieces)].to)

\* The numbers of pieces split_at_max_curvature cuts a curve into
PieceCounts == {Len(Curve_split_at_max_curvature(c)) + 1 : c \in Candidates}

\* Every way to cut one curve into pieces and the pieces into fragments, and
\* two curves one after the other, the longer first and the longer last.
SplitInputs ==
    LET needs == UNION {[1..n -> PieceNeeds] : n \in PieceCounts}
        most == CHOOSE n \in PieceCounts : \A m \in PieceCounts : m <= n
        full == [j \in 1..most |-> <<TRUE, TRUE, TRUE>>]
        one == <<<<FALSE, FALSE, FALSE>>>>
    IN  {<<MoveTo(SegP0), PlanCurve(n, l), LineTo(SegP1)>> :
            n \in needs, l \in {"all", "head", "tail"}}
        \cup {<<MoveTo(SegP0), PlanCurve(a, l), MoveTo(SegP0), PlanCurve(b, l), Close>> :
                 a, b \in {full, one}, l \in {"all", "tail"}}

SegsNew(commands) ==
    [split |-> Segments_new_split(commands), whole |-> Segments_new(commands),
     outSplit |-> <<>>, outWhole |-> <<>>, doneSplit |-> FALSE, doneWhole |-> FALSE]

\* The two iterators where no behaviour constructs them
SegsIdle == [doneSplit |-> TRUE, doneWhole |-> TRUE]

\* segments(commands, true).next()
SegNextSplit ==
    /\ sys \in {"segs", "split"}
    /\ ~iters.doneSplit
    /\ LET r == Segments_next_curves(iters.split)
       IN  iters' = [iters EXCEPT !.split = r.s,
                                !.doneSplit = (r.out = NoSegment),
                                !.outSplit = IF r.out = NoSegment THEN @
                                             ELSE Append(@, [seg |-> r.out, at |-> r.s.at])]
    /\ UNCHANGED nonSegVars

\* segments(commands, false).next(), once the splitting iterator is done
SegNextWhole ==
    /\ sys \in {"segs", "split"}
    /\ iters.doneSplit
    /\ ~iters.doneWhole
    /\ LET r == Segments_next_whole(iters.whole)
       IN  iters' = [iters EXCEPT !.whole = r.s,
                                !.doneWhole = (r.out = NoSegment),
                                !.outWhole = IF r.out = NoSegment THEN @
                                             ELSE Append(@, [seg |-> r.out, at |-> r.s.at])]
    /\ UNCHANGED nonSegVars

SegNext == SegNextSplit \/ SegNextWhole

(***************************************************************************)
(* stroke.rs: the joins of stroke_segments and dash_segments.  Where the   *)
(* offset of one segment ends and the offset of the next one starts is     *)
(* decided by their geometry (OffsetSegment::new); a contour of the model  *)
(* carries, for each segment, the junction to its successor: whether the   *)
(* two offset points are nearly equal, which way the normals turn, and     *)
(* whether the turn is beyond the miter limit.  On the other side of the   *)
(* stroke the same junction is met with both normals negated and swapped.  *)
(***************************************************************************)
Junction(near, turn, sharp) == [near |-> near, turn |-> turn, sharp |-> sharp]

\* Segment::reverse on both segments of a junction
Junction_reverse(g) ==
    [g EXCEPT !.turn = IF @ = "cw" THEN "ccw" ELSE IF @ = "ccw" THEN "cw" ELSE @]

\* is_clockwise(from_normal, to_normal)
is_clockwise(g) == g.turn = "cw"

\* Stroker::add_join: what it sends to the sink
add_join(join, g) ==
    IF g.near THEN "none"
    ELSE IF ~is_clockwise(g) THEN "pivot"
    ELSE CASE join = "Bevel" -> "Bevel"
           [] join = "Round" -> "Round"
           [] join = "Miter" -> IF g.sharp THEN "Bevel" ELSE "Miter"

\* Stroker::add_split_join: what it sends to the sink
add_split_join(g) ==
    IF g.near THEN "none"
    ELSE IF ~is_clockwise(g) THEN "pivot"
    ELSE "Round"

\* A join in the sink: the pass, the two segments (numbered from 1) whose
\* offsets it connects, in the order of the path, and the junction as the
\* pass meets it.
Joined(j, from, to, g, shape) ==
    [mode |-> j.mode, pass |-> j.pass, from |-> from, to |-> to, geom |-> g,
     shape |-> shape]

\* get_signed's index, numbered from 1
signed_index(segments, index) ==
    IF index < 0 THEN (Len(segments) - (-index)) + 1 ELSE index + 1

\* stroke_segments up to its first loop
stroke_segments_begin(join, segments, turns, is_closed) ==
    [mode |-> "stroke", join |-> join, segments |-> segments, turns |-> turns,
     is_closed |-> is_closed, start |-> 0, end |-> Len(segments) - 1, skip |-> FALSE,
     pass |-> "forward", k |-> 0, is_first |-> ~is_closed, last_id |-> NO_ID,
     last |-> IF is_closed THEN Len(segments) ELSE 0, sink |-> <<>>]

\* dash_segments up to its first loop; skip says that t0 >= 1
dash_segments_begin(join, segments, turns, is_closed, start, end, skip) ==
    [mode |-> "dash", join |-> join, segments |-> segments, turns |-> turns,
     is_closed |-> is_closed, start |-> start, end |-> end, skip |-> skip,
     pass |-> "forward", k |-> 0, is_first |-> TRUE, last_id |-> NO_ID,
     last |-> 0, sink |-> <<>>]

\* The end of one round of a loop: the next round, or the next pass
loop_end(j, rounds) ==
    IF j.k + 1 < rounds THEN [j EXCEPT !.k = @ + 1]
    ELSE IF j.pass = "forward"
    THEN [j EXCEPT !.k = 0, !.pass = "reverse", !.is_first = TRUE,
                   !.last_id = IF j.mode = "dash" THEN NO_ID ELSE @]
    ELSE [j EXCEPT !.k = 0, !.pass = "done"]

\* stroke_segments: one round of "for segment in segments"
stroke_segments_forward(j) ==
    LET i == j.k + 1
        id == j.segments[i].id
        g == j.turns[j.last]
        j1 == IF j.is_first THEN j
              ELSE [j EXCEPT !.sink = Append(@, Joined(j, j.last, i, g, add_join(j.join, g)))]
    IN  loop_end([j1 EXCEPT !.is_first = FALSE, !.last_id = id, !.last = i],
                 Len(j.segments))

\* stroke_segments: one round of "for segment in segments.iter().rev()"
stroke_segments_reverse(j) ==
    LET len == Len(j.segments)
        i == len - j.k
        id == j.segments[i].id
        j1 == IF j.is_first
              THEN IF j.is_closed
                   THEN LET g == Junction_reverse(j.turns[len])
                        IN  [j EXCEPT !.sink = Append(@, Joined(j, len, 1, g,
                                                                add_join(j.join, g)))]
                   ELSE j
              ELSE LET g == Junction_reverse(j.turns[i])
                   IN  [j EXCEPT !.sink = Append(@, Joined(j, i, j.last, g,
                              IF id # j.last_id THEN add_join(j.join, g)
                                                ELSE add_split_join(g)))]
    IN  loop_end([j1 EXCEPT !.is_first = FALSE, !.last_id = id, !.last = i], len)

\* dash_segments: one round of "for i in start..=end"
dash_segments_forward(j) ==
    LET i == j.start + j.k
        at == signed_index(j.segments, i)
        id == j.segments[at].id
        g == j.turns[j.last]
        rounds == (j.end - j.start) + 1
    IN  IF i = j.start /\ j.skip
        THEN loop_end(j, rounds)
        ELSE LET j1 == IF j.is_first THEN j
                       ELSE [j EXCEPT !.sink = Append(@, Joined(j, j.last, at, g,
                                  IF id # j.last_id THEN add_join(j.join, g)
                                                    ELSE add_split_join(g)))]
             IN  loop_end([j1 EXCEPT !.is_first = FALSE, !.last_id = id, !.last = at],
                          rounds)

\* dash_segments: one round of "for i in (start..=end).rev()"
dash_segments_reverse(j) ==
    LET i == j.end - j.k
        at == signed_index(j.segments, i)
        id == j.segments[at].id
        g == Junction_reverse(j.turns[at])
        rounds == (j.end - j.start) + 1
    IN  IF i = j.start /\ j.skip
        THEN loop_end(j, rounds)
        ELSE LET j1 == IF j.is_first THEN j
                       ELSE [j EXCEPT !.sink = Append(@, Joined(j, at, j.last, g,
                                  IF id # j.last_id THEN add_join(j.join, g)
                                                    ELSE add_split_join(g)))]
             IN  loop_end([j1 EXCEPT !.is_first = FALSE, !.last_id = id, !.last = at],
                          rounds)

\* StrokerStorage::collect over the splitting iterator
RECURSIVE collect_split(_, _)
\* StrokerStorage::collect, what it does with one yield r of the iterator
collect_split_yield(r, buf) ==
    IF r.out = NoSegment
    THEN [segments |-> buf, is_closed |-> FALSE]
    ELSE IF r.out.kind = "End"
    THEN [segments |-> buf, is_closed |-> r.out.closed]
    ELSE collect_split(r.s, Append(buf, r.out))

collect_split(source, buf) == collect_split_yield(Segments_next_curves(source), buf)

\* The contours: a closed loop that is one curve in three fragments, an
\* open path of a curve in two fragments and a line, a triangle.
JoinLoop == <<MoveTo(SegP0), CurveCut(<<SegP1, SegP2>>, SegP0, FALSE), Close>>
JoinOpen == <<MoveTo(SegP1), CurveCut(<<SegP2>>, SegP0, FALSE), LineTo(SegP2)>>
JoinTriangle == <<MoveTo(SegP0), LineTo(SegP1), LineTo(SegP2), Close>>

JoinStyles == {"Bevel", "Miter", "Round"}

\* Offsets that meet, a turn to either side, and a turn beyond the miter limit
Junctions ==
    {Junction(TRUE, "cw", FALSE), Junction(FALSE, "cw", FALSE),
     Junction(FALSE, "cw", TRUE), Junction(FALSE, "ccw", FALSE)}

\* The dashes: from the segment before the first (on a closed contour), the
\* first or the second segment, with or without t0 >= 1, at least two
\* segments of which the first is not skipped away.
DashRanges(len, is_closed) ==
    {r \in ((-1)..1) \X (0..(len - 1)) \X BOOLEAN :
        /\ r[1] < r[2]
        /\ r[1] < 0 => is_closed}

\* One contour with every style, every choice of junctions, un-dashed
\* (range <<>>) and with every dash
\* The calls of stroke_segments and dash_segments on one collected contour
JoinInputsFrom(segments, is_closed, styles) ==
    {IF x[3] = <<>>
     THEN stroke_segments_begin(x[1], segments, x[2], is_closed)
     ELSE dash_segments_begin(x[1], segments, x[2], is_closed,
                              x[3][1], x[3][2], x[3][3]) :
        x \in styles \X [1..Len(segments) -> Junctions]
                \X ({<<>>} \cup DashRanges(Len(segments), is_closed))}

\* The calls on what collect gathered
JoinInputsCollected(c, styles) == JoinInputsFrom(c.segments, c.is_closed, styles)

JoinInputsOf(p, styles) ==
    JoinInputsCollected(collect_split(Segments_new_split(p), <<>>), styles)

JoinInputs(styles) ==
    JoinInputsOf(JoinLoop, styles) \cup JoinInputsOf(JoinOpen, styles)
        \cup JoinInputsOf(JoinTriangle, styles)

JoinIdle == stroke_segments_begin("Bevel", <<>>, <<>>, FALSE)

StrokeForward ==
    /\ sys = "join"
    /\ joiner.mode = "stroke"
    /\ joiner.pass = "forward"
    /\ joiner' = stroke_segments_forward(joiner)
    /\ UNCHANGED nonJoinVars

StrokeReverse ==
    /\ sys = "join"
    /\ joiner.mode = "stroke"
    /\ joiner.pass = "reverse"
    /\ joiner' = stroke_segments_reverse(joiner)
    /\ UNCHANGED nonJoinVars

DashForward ==
    /\ sys = "join"
    /\ joiner.mode = "dash"
    /\ joiner.pass = "forward"
    /\ joiner' = dash_segments_forward(joiner)
    /\ UNCHANGED nonJoinVars

DashReverse ==
    /\ sys = "join"
    /\ joiner.mode = "dash"
    /\ joiner.pass = "reverse"
    /\ joiner' = dash_segments_reverse(joiner)
    /\ UNCHANGED nonJoinVars

JoinNext == StrokeForward \/ StrokeReverse \/ DashForward \/ DashReverse

(***************************************************************************)
(* raster.rs: Rasterizer::quad_to and Rasterizer::curve_to.  The i32       *)
(* sums of the subdivision wrap when overflow checks are off and panic     *)
(* when they are on; `checked` says which build runs.                      *)
(***************************************************************************)
QUAD_ARC_LEN == 16 * 2 + 1
CUBIC_ARC_LEN == 16 * 8 + 1

\* whether a + b, a - b, 3 * a leave the i32 range
AddOverflows(a, b) == (a > 0 /\ b > I32_MAX - a) \/ (a < 0 /\ b < I32_MIN - a)
SubOverflows(a, b) == IF b = I32_MIN THEN a >= 0 ELSE AddOverflows(a, -b)
ThriceOverflows(a) == a > I32_MAX \div 3 \/ a < -(I32_MAX \div 3)

\* 2 * a and 3 * a in wrapping arithmetic
Twice(a) == WrappingAdd(a, a)
Thrice(a) == WrappingAdd(WrappingAdd(a, a), a)

\* split_quad on one coordinate, given a = base[0] + base[1] and
\* b = base[1] + base[2]
split_quad_sums(b2, a, b, o) ==
    [b1 |-> a \div 2, b2 |-> WrappingAdd(a, b) \div 4, b3 |-> b \div 2, b4 |-> b2,
     overflow |-> o \/ AddOverflows(a, b)]

\* split_quad on one coordinate: base[1..4] from base[0..2]
split_quad_axis(b0, b1, b2) ==
    split_quad_sums(b2, WrappingAdd(b0, b1), WrappingAdd(b1, b2),
                    AddOverflows(b0, b1) \/ AddOverflows(b1, b2))

split_quad_write(arc, a, sx, sy) ==
    [arc |-> [arc EXCEPT ![a + 1] = FixedPoint(sx.b1, sy.b1),
                         ![a + 2] = FixedPoint(sx.b2, sy.b2),
                         ![a + 3] = FixedPoint(sx.b3, sy.b3),
                         ![a + 4] = FixedPoint(sx.b4, sy.b4)],
     overflow |-> sx.overflow \/ sy.overflow,
     out_of_bounds |-> a + 4 \notin DOMAIN arc]

\* split_quad(&mut arc[a..])
split_quad(arc, a) ==
    split_quad_write(arc, a,
                     split_quad_axis(arc[a].x, arc[a + 1].x, arc[a + 2].x),
                     split_quad_axis(arc[a].y, arc[a + 1].y, arc[a + 2].y))

\* split_cubic on one coordinate, from `c += b` and `a += b` on
split_cubic_halves(b3, a, c, ab, cb, o) ==
    [b1 |-> a \div 2, b2 |-> ab \div 4, b3 |-> WrappingAdd(ab, cb) \div 8,
     b4 |-> cb \div 4, b5 |-> c \div 2, b6 |-> b3,
     overflow |-> o \/ AddOverflows(ab, cb)]

\* split_cubic on one coordinate, given a = base[0] + base[1],
\* b = base[1] + base[2] and c = base[2] + base[3]
split_cubic_sums(b3, a, b, c, o) ==
    split_cubic_halves(b3, a, c, WrappingAdd(a, b), WrappingAdd(c, b),
                       o \/ AddOverflows(c, b) \/ AddOverflows(a, b))

\* split_cubic on one coordinate: base[1..6] from base[0..3]
split_cubic_axis(b0, b1, b2, b3) ==
    split_cubic_sums(b3, WrappingAdd(b0, b1), WrappingAdd(b1, b2), WrappingAdd(b2, b3),
                     AddOverflows(b0, b1) \/ AddOverflows(b1, b2) \/ AddOverflows(b2, b3))

split_cubic_write(arc, a, sx, sy) ==
    [arc |-> [arc EXCEPT ![a + 1] = FixedPoint(sx.b1, sy.b1),
                         ![a + 2] = FixedPoint(sx.b2, sy.b2),
                         ![a + 3] = FixedPoint(sx.b3, sy.b3),
                         ![a + 4] = FixedPoint(sx.b4, sy.b4),
                         ![a + 5] = FixedPoint(sx.b5, sy.b5),
                         ![a + 6] = FixedPoint(sx.b6, sy.b6)],
     overflow |-> sx.overflow \/ sy.overflow,
     out_of_bounds |-> a + 6 \notin DOMAIN arc]

\* split_cubic(&mut arc[a..])
split_cubic(arc, a) ==
    split_cubic_write(arc, a,
        split_cubic_axis(arc[a].x, arc[a + 1].x, arc[a + 2].x, arc[a + 3].x),
        split_cubic_axis(arc[a].y, arc[a + 1].y, arc[a + 2].y, arc[a + 3].y))

\* t.abs() > limit; the abs of i32::MIN overflows and wraps to i32::MIN
abs_exceeds(t, limit, o) ==
    [overflow |-> o \/ t = I32_MIN, big |-> t # I32_MIN /\ Abs(t) > limit]

\* (d + r).abs() > limit
sum_exceeds(d, r, limit, o) ==
    abs_exceeds(WrappingAdd(d, r), limit, o \/ AddOverflows(d, r))

\* (d - s).abs() > limit
difference_exceeds(d, s, limit, o) ==
    abs_exceeds(WrappingSub(d, s), limit, o \/ SubOverflows(d, s))

\* (2 * p - 3 * q + r).abs() > ONE_PIXEL / 2
bends_first(p, q, r) ==
    sum_exceeds(WrappingSub(Twice(p), Thrice(q)), r, ONE_PIXEL \div 2,
                \/ AddOverflows(p, p)
                \/ ThriceOverflows(q)
                \/ SubOverflows(Twice(p), Thrice(q)))

\* (p - 3 * q + 2 * r).abs() > ONE_PIXEL / 2
bends_second(p, q, r) ==
    sum_exceeds(WrappingSub(p, Thrice(q)), Twice(r), ONE_PIXEL \div 2,
                \/ ThriceOverflows(q)
                \/ SubOverflows(p, Thrice(q))
                \/ AddOverflows(r, r))

\* `||` evaluates its right side only when the left side is false, so an
\* overflow is met only in the tests that are reached.
RECURSIVE any_bends(_, _)
any_bends(tests, checked) ==
    IF tests = <<>> THEN [panic |-> FALSE, big |-> FALSE]
    ELSE IF checked /\ Head(tests).overflow THEN [panic |-> TRUE, big |-> FALSE]
    ELSE IF Head(tests).big THEN [panic |-> FALSE, big |-> TRUE]
    ELSE any_bends(Tail(tests), checked)

\* the condition of curve_to's loop on arc[a..a + 3]
needs_cubic_split(arc, a, checked) ==
    any_bends(<<bends_first(arc[a].x, arc[a + 1].x, arc[a + 3].x),
                bends_first(arc[a].y, arc[a + 1].y, arc[a + 3].y),
                bends_second(arc[a].x, arc[a + 2].x, arc[a + 3].x),
                bends_second(arc[a].y, arc[a + 2].y, arc[a + 3].y)>>, checked)

\* (p + r - 2 * q).abs(), with a limit that is not used
quad_bend(p, q, r) ==
    difference_exceeds(WrappingAdd(p, r), Twice(q), 0,
                       AddOverflows(p, r) \/ AddOverflows(q, q))

\* the same value, which abs_exceeds does not return
quad_bend_value(p, q, r) ==
    IF WrappingSub(WrappingAdd(p, r), Twice(q)) = I32_MIN
    THEN I32_MIN
    ELSE Abs(WrappingSub(WrappingAdd(p, r), Twice(q)))

\* quad_to: dx and dy, the larger of the two
quad_deviation(arc) ==
    [overflow |-> \/ quad_bend(arc[2].x, arc[1].x, arc[0].x).overflow
                  \/ quad_bend(arc[2].y, arc[1].y, arc[0].y).overflow,
     v |-> IF quad_bend_value(arc[2].x, arc[1].x, arc[0].x)
               < quad_bend_value(arc[2].y, arc[1].y, arc[0].y)
           THEN quad_bend_value(arc[2].y, arc[1].y, arc[0].y)
           ELSE quad_bend_value(arc[2].x, arc[1].x, arc[0].x)]

\* while dx > ONE_PIXEL / 4 { dx >>= 2; draw <<= 1; }
RECURSIVE quad_draw(_, _)
quad_draw(dx, draw) ==
    IF dx > ONE_PIXEL \div 4 THEN quad_draw(dx \div 4, draw * 2) ELSE draw

\* draw & (-draw): the lowest bit set in draw
RECURSIVE lowest_bit(_)
lowest_bit(n) == IF n % 2 = 1 THEN 1 ELSE 2 * lowest_bit(n \div 2)

\* split_quad(&mut arc[a..]); a += 2
quad_split_once(w, s, checked) ==
    IF s.out_of_bounds
    THEN [w EXCEPT !.panic = TRUE, !.out_of_bounds = TRUE]
    ELSE IF checked /\ s.overflow
    THEN [w EXCEPT !.panic = TRUE]
    ELSE [w EXCEPT !.arc = s.arc, !.a = @ + 2, !.splits = @ + 1]

\* quad_to's inner loop: split >>= 1; if split == 0 { break; } split_quad; a += 2
RECURSIVE quad_splits(_, _, _)
quad_splits(w, split, checked) ==
    IF split \div 2 = 0 \/ w.panic
    THEN w
    ELSE quad_splits(quad_split_once(w, split_quad(w.arc, w.a), checked),
                     split \div 2, checked)

\* whether all the trunc(arc[i].y), i up to n, are on one side of the band
outside_band(r, arc, n) ==
    \/ \A i \in 0..n : trunc(arc[i].y) >= r.ymax
    \/ \A i \in 0..n : trunc(arc[i].y) < r.ymin

\* line_to's test for a line above or below the band
line_outside_band(r, p) ==
    \/ trunc(r.py) >= r.ymax /\ trunc(p.y) >= r.ymax
    \/ trunc(r.py) < r.ymin /\ trunc(p.y) < r.ymin

\* self.line_to(p) from a curve.  dx and dy are computed behind the test
\* for the band; a wrapped dx is used only by the cell walk, which the
\* horizontal case does not reach.
curve_line_to(w, p, checked) ==
    IF line_outside_band(w.r, p)
       \/ ~(SubOverflows(p.x, w.r.px) \/ SubOverflows(p.y, w.r.py))
    THEN [w EXCEPT !.r = ras_line_to(w.r, p), !.lines = @ + 1, !.last = p]
    ELSE IF checked
    THEN [w EXCEPT !.panic = TRUE]
    ELSE [w EXCEPT !.r = [set_cell(w.r, trunc(p.x), trunc(p.y))
                             EXCEPT !.px = p.x, !.py = p.y],
                   !.lines = @ + 1, !.last = p]

\* A call about to be made on a Rasterizer whose band is rows 0 .. h - 1
\* and whose current point is `from`.
SubdivNew(kind, checked, h, from, c1, c2, to) ==
    [kind |-> kind, checked |-> checked,
     c1 |-> c1, c2 |-> c2, to |-> to,
     r |-> ras_move_to(rasterize_begin(Rasterizer_new(HeapStorageNew), 1, h), from),
     arc |-> <<>>, a |-> 0, draw |-> 0, pc |-> "call",
     splits |-> 0, lines |-> 0, last |-> from,
     panic |-> FALSE, out_of_bounds |-> FALSE, degraded |-> FALSE,
     visits |-> 0, mark |-> <<>>]

SubdivIdle == [pc |-> "off"]

\* the array of quad_to, its first three slots written
quad_arc(w) ==
    [i \in 0..(QUAD_ARC_LEN - 1) |->
        IF i = 0 THEN w.to
        ELSE IF i = 1 THEN w.c1
        ELSE IF i = 2 THEN FixedPoint(w.r.px, w.r.py)
        ELSE Uninit]

quad_to_enter(w, arc, dev) ==
    IF outside_band(w.r, arc, 2)
    THEN [w EXCEPT !.r.px = w.to.x, !.r.py = w.to.y, !.pc = "done"]
    ELSE IF w.checked /\ dev.overflow
    THEN [w EXCEPT !.panic = TRUE, !.pc = "panic"]
    ELSE [w EXCEPT !.arc = arc, !.a = 0, !.draw = quad_draw(dev.v, 1), !.pc = "loop"]

\* quad_to up to its loop
quad_to_begin(w) == quad_to_enter(w, quad_arc(w), quad_deviation(quad_arc(w)))

\* draw -= 1; if draw == 0 { break; } a -= 2
quad_to_count(w) ==
    IF w.panic THEN [w EXCEPT !.pc = "panic"]
    ELSE IF w.draw - 1 = 0 THEN [w EXCEPT !.draw = 0, !.pc = "done"]
    ELSE [w EXCEPT !.draw = @ - 1, !.a = @ - 2]

\* let p = arc[a]; self.line_to(p)
quad_to_draw(w) ==
    IF w.panic THEN w ELSE curve_line_to(w, w.arc[w.a], w.checked)

\* one round of quad_to's outer loop
quad_to_step(w) ==
    quad_to_count(quad_to_draw(quad_splits(w, lowest_bit(w.draw), w.checked)))

\* the array of curve_to, its first four slots written
cubic_arc(w) ==
    [i \in 0..(CUBIC_ARC_LEN - 1) |->
        IF i = 0 THEN w.to
        ELSE IF i = 1 THEN w.c2
        ELSE IF i = 2 THEN w.c1
        ELSE IF i = 3 THEN FixedPoint(w.r.px, w.r.py)
        ELSE Uninit]

curve_to_enter(w, arc) ==
    IF outside_band(w.r, arc, 3)
    THEN [w EXCEPT !.r.px = w.to.x, !.r.py = w.to.y, !.pc = "done"]
    ELSE [w EXCEPT !.arc = arc, !.a = 0, !.pc = "loop"]

\* curve_to up to its loop
curve_to_begin(w) == curve_to_enter(w, cubic_arc(w))

\* split_cubic(buf); a += 3; continue
curve_to_split(w, s) ==
    IF s.out_of_bounds
    THEN [w EXCEPT !.panic = TRUE, !.out_of_bounds = TRUE, !.pc = "panic"]
    ELSE IF w.checked /\ s.overflow
    THEN [w EXCEPT !.panic = TRUE, !.pc = "panic"]
    ELSE [w EXCEPT !.arc = s.arc, !.a = @ + 3, !.splits = @ + 1]

\* self.line_to(to); return, `line` being what line_to left
curve_to_degrade(line) ==
    IF line.panic THEN [line EXCEPT !.pc = "panic"]
    ELSE [line EXCEPT !.degraded = TRUE, !.pc = "done"]

\* self.line_to(p); if a == 0 { return; } a -= 3
curve_to_draw(line) ==
    IF line.panic THEN [line EXCEPT !.pc = "panic"]
    ELSE IF line.a = 0 THEN [line EXCEPT !.pc = "done"]
    ELSE [line EXCEPT !.a = @ - 3]

curve_to_branch(w, room, bends) ==
    IF bends.panic
    THEN [w EXCEPT !.panic = TRUE, !.pc = "panic"]
    ELSE IF bends.big /\ CUBIC_ARC_LEN - w.a >= room
    THEN curve_to_split(w, split_cubic(w.arc, w.a))
    ELSE IF bends.big
    THEN curve_to_degrade(curve_line_to(w, w.to, w.checked))
    ELSE curve_to_draw(curve_line_to(w, w.arc[w.a], w.checked))

\* One round of curve_to's loop, splitting while buf.len() >= room.
curve_to_round(w, room) ==
    curve_to_branch(w, room, needs_cubic_split(w.arc, w.a, w.checked))

\* curve_to that splits whatever room is left
curve_to_step_no_room_test(w) == curve_to_round(w, 0)

curve_to_step(w) == curve_to_round(w, 7)

(***************************************************************************)
(* One quad_to or curve_to call as a state machine: the call, then one     *)
(* round of its loop per step.                                             *)
(***************************************************************************)
MaxCurveX == 2 ^ 20     \* the spread of the control points of the grid of curves
CurveRow == 128         \* the y of the curves laid along a row of the band
P29 == 2 ^ 29

\* Curves along one row, so that every line_to is horizontal: a grid of
\* small ones, the quad with the largest dx that does not overflow, quads
\* and cubics whose sums overflow (the cubic from 234500496 is 256 times
\* pixel coordinates that an f32 holds), and a large cubic without overflow.
RowCurves ==
    LET xs == {0, MaxCurveX, -MaxCurveX}
        at(x) == FixedPoint(x, CurveRow)
    IN  {SubdivNew(k, c, 2, at(0), at(x1), at(x2), at(x3)) :
            k \in {"quad", "cubic"}, c \in BOOLEAN, x1 \in xs, x2 \in xs, x3 \in xs}
        \cup {SubdivNew("quad", c, 2, at(P29 - 1), at(-P29), at(-P29), at(P29 - 1)) :
                 c \in BOOLEAN}
        \cup {SubdivNew("quad", c, 2, at(2 * P29), at(0), at(0), at(2 * P29)) : c \in BOOLEAN}
        \cup {SubdivNew("quad", c, 2, at(0), at(2 * P29), at(2 * P29), at(I32_MIN)) :
                 c \in BOOLEAN}
        \cup {SubdivNew("cubic", c, 2, at(1132903364), at(-1051970500), at(-216934237),
                        at(651086875)) : c \in BOOLEAN}
        \cup {SubdivNew("cubic", c, 2, at(0), at(P29 \div 2), at(-(P29 \div 2)), at(MaxCurveX)) :
                 c \in BOOLEAN}
        \cup {SubdivNew("cubic", c, 2, at(234500496), at(-439239136), at(-105607624),
                        at(273516960)) : c \in BOOLEAN}
        \cup {SubdivNew("cubic", c, 2, at(-161225739), at(-365747991), at(1065907775),
                        at(1065907776)) : c \in BOOLEAN}

\* Curves across the band and beside it, drawn with the cell walk.
BandCurves ==
    LET ps == {FixedPoint(32, 48), FixedPoint(200, 500), FixedPoint(100, -300),
               FixedPoint(-100, 300), FixedPoint(400, 1000)}
    IN  {SubdivNew(k, c, 2, p0, p1, p2, p3) :
            k \in {"quad", "cubic"}, c \in BOOLEAN,
            p0 \in ps, p1 \in ps, p2 \in ps, p3 \in ps}

SubdivInputs == RowCurves \cup BandCurves

Stopped(w) == w.pc \in {"done", "panic"}

QuadToCall ==
    /\ sys = "curve"
    /\ subdiv.pc = "call"
    /\ subdiv.kind = "quad"
    /\ subdiv' = quad_to_begin(subdiv)
    /\ UNCHANGED nonCurveVars

QuadToRound ==
    /\ sys = "curve"
    /\ subdiv.pc = "loop"
    /\ subdiv.kind = "quad"
    /\ subdiv' = quad_to_step(subdiv)
    /\ UNCHANGED nonCurveVars

CurveToCall ==
    /\ sys = "curve"
    /\ subdiv.pc = "call"
    /\ subdiv.kind = "cubic"
    /\ subdiv' = curve_to_begin(subdiv)
    /\ UNCHANGED nonCurveVars

\* The curve at the bottom of the array is all that a round at a = 0 reads.
bottom_curve(w) == <<w.arc[0], w.arc[1], w.arc[2], w.arc[3]>>

\* One round of curve_to's loop.  Beside it the bottom curve is remembered
\* at the rounds with a = 0 whose number is a power of two; a round that
\* finds the remembered curve again will repeat what followed it for ever,
\* and is recorded as pc = "again" in place of being run once more.
CurveToRound ==
    /\ sys = "curve"
    /\ subdiv.pc = "loop"
    /\ subdiv.kind = "cubic"
    /\ subdiv' =
          IF subdiv.a # 0
          THEN curve_to_step(subdiv)
          ELSE IF bottom_curve(subdiv) = subdiv.mark
          THEN [subdiv EXCEPT !.pc = "again"]
          ELSE [curve_to_step(subdiv) EXCEPT
                   !.visits = @ + 1,
                   !.mark = IF lowest_bit(subdiv.visits + 1) = subdiv.visits + 1
                            THEN bottom_curve(subdiv) ELSE @]
    /\ UNCHANGED nonCurveVars

CurveNext == QuadToCall \/ QuadToRound \/ CurveToCall \/ CurveToRound

(***************************************************************************)
(* stroke.rs: the calls stroke_segments and dash_segments make on the     *)
(* sink.  A call is kept as its name and the part of the contour that made *)
(* it.  The segments are kept as their ids; the junction between two       *)
(* offsets is the same all along a contour.                                *)
(***************************************************************************)
Call(op, by) == [op |-> op, by |-> by]

\* Stroker::emit
emit_calls(segment, by) ==
    IF segment.kind = "Line" THEN <<Call("line_to", by)>> ELSE <<Call("curve_to", by)>>

\* the calls of add_join and add_split_join, by what they draw
join_calls(shape) ==
    CASE shape = "none" -> <<>>
      [] shape = "pivot" -> <<Call("line_to", "join"), Call("line_to", "join")>>
      [] shape = "Bevel" -> <<Call("line_to", "join")>>
      [] shape = "Round" -> <<Call("curve_to", "join")>>
      [] shape = "Miter" -> <<Call("line_to", "join"), Call("line_to", "join")>>

\* Stroker::add_cap; the arc of a round cap is a half circle, two curve_to
add_cap(cap, by) ==
    CASE cap = "Butt" -> <<Call("line_to", by)>>
      [] cap = "Square" -> <<Call("line_to", by), Call("line_to", by), Call("line_to", by)>>
      [] cap = "Round" -> <<Call("curve_to", by), Call("curve_to", by)>>

\* the join before segment i when the segment before it had id last_id
join_or_split_join(c, g, id, last_id) ==
    join_calls(IF id # last_id THEN add_join(c.join, g) ELSE add_split_join(g))

\* stroke_segments: "for segment in segments", from round i on
RECURSIVE stroke_forward_calls(_, _)
stroke_forward_calls(c, i) ==
    IF i > Len(c.segments) THEN <<>>
    ELSE (IF i = 1 /\ ~c.is_closed
          THEN <<Call("move_to", "start")>>
          ELSE join_calls(add_join(c.join, c.turn)))
         \o emit_calls(c.segments[i], "outer")
         \o stroke_forward_calls(c, i + 1)

\* stroke_segments: "for segment in segments.iter().rev()", from segment i down
RECURSIVE stroke_reverse_calls(_, _)
stroke_reverse_calls(c, i) ==
    IF i < 1 THEN <<>>
    ELSE (IF i = Len(c.segments)
          THEN IF c.is_closed
               THEN <<Call("line_to", "inner")>>
                    \o join_calls(add_join(c.join, Junction_reverse(c.turn)))
               ELSE add_cap(c.end_cap, "end_cap")
          ELSE join_or_split_join(c, Junction_reverse(c.turn),
                                  c.segments[i].id, c.segments[i + 1].id))
         \o emit_calls(c.segments[i], "inner")
         \o stroke_reverse_calls(c, i - 1)

\* Stroker::stroke_segments
stroke_segments_calls(c) ==
    IF Len(c.segments) = 0
    THEN <<>>
    ELSE IF /\ Len(c.segments) = 1
            /\ c.segments[1].zero
            /\ (c.start_cap # "Butt" \/ c.end_cap # "Butt")
    THEN <<Call("move_to", "start")>>
         \o add_cap(c.end_cap, "end_cap")
         \o add_cap(c.start_cap, "start_cap")
    ELSE (IF c.is_closed THEN <<Call("move_to", "start")>> ELSE <<>>)
         \o stroke_forward_calls(c, 1)
         \o stroke_reverse_calls(c, Len(c.segments))
         \o (IF ~c.is_closed THEN add_cap(c.start_cap, "start_cap") ELSE <<>>)
         \o <<Call("close", "close")>>

\* whether round i of a loop of dash_segments is passed over (t0 >= 1.)
dash_skips(c, i) == i = c.start /\ c.skip

\* the last i below `i` that a loop of dash_segments did not pass over, or
\* start - 1
dash_before(c, i) == IF dash_skips(c, i - 1) THEN i - 2 ELSE i - 1

\* the first i above `i` that the reverse loop did not pass over
dash_after(c, i) == i + 1

\* dash_segments: "for i in start..=end", from round i on
RECURSIVE dash_forward_calls(_, _)
dash_forward_calls(c, i) ==
    IF i > c.end THEN <<>>
    ELSE IF dash_skips(c, i) THEN dash_forward_calls(c, i + 1)
    ELSE (IF dash_before(c, i) < c.start
          THEN <<Call("move_to", "start")>>
          ELSE join_or_split_join(c, c.turn, get_signed(c.segments, i).id,
                                  get_signed(c.segments, dash_before(c, i)).id))
         \o emit_calls(get_signed(c.segments, i), "outer")
         \o dash_forward_calls(c, i + 1)

\* dash_segments: "for i in (start..=end).rev()", from round i down
RECURSIVE dash_reverse_calls(_, _)
dash_reverse_calls(c, i) ==
    IF i < c.start THEN <<>>
    ELSE IF dash_skips(c, i) THEN dash_reverse_calls(c, i - 1)
    ELSE (IF i = c.end
          THEN add_cap(c.end_cap, "end_cap")
          ELSE join_or_split_join(c, Junction_reverse(c.turn),
                                  get_signed(c.segments, i).id,
                                  get_signed(c.segments, dash_after(c, i)).id))
         \o emit_calls(get_signed(c.segments, i), "inner")
         \o dash_reverse_calls(c, i - 1)

\* Stroker::dash_segments; c.dot says that t0 == t1
dash_segments_calls(c) ==
    IF c.dot /\ c.start = c.end
    THEN IF c.start_cap = "Butt" /\ c.end_cap = "Butt"
         THEN <<>>
         ELSE <<Call("move_to", "start")>>
              \o add_cap(c.end_cap, "end_cap")
              \o add_cap(c.start_cap, "start_cap")
              \o <<Call("close", "close")>>
    ELSE dash_forward_calls(c, c.start)
         \o dash_reverse_calls(c, c.end)
         \o add_cap(c.start_cap, "start_cap")
         \o <<Call("close", "close")>>

(***************************************************************************)
(* One stroke_segments or dash_segments call.                              *)
(***************************************************************************)
Caps == {"Butt", "Square", "Round"}

\* The segments of a subpath, by id: lines, and curves cut in two pieces
\* (which share an id); a single segment may have no length.
ContourSegments ==
    LET line(id, zero) == [id |-> id, kind |-> "Line", zero |-> zero]
        curve(id) == [id |-> id, kind |-> "Curve", zero |-> FALSE]
    IN  {<<line(0, FALSE)>>, <<line(0, TRUE)>>, <<curve(0)>>,
         <<line(0, FALSE), line(1, FALSE)>>, <<curve(0), curve(0)>>,
         <<line(0, FALSE), curve(1), curve(1)>>,
         <<line(0, FALSE), line(1, FALSE), line(2, FALSE)>>}

ContourOf(mode, segments, is_closed, start, end, skip, dot, style) ==
    [mode |-> mode, segments |-> segments, is_closed |-> is_closed,
     start |-> start, end |-> end, skip |-> skip, dot |-> dot,
     join |-> style[1], turn |-> style[2], start_cap |-> style[3], end_cap |-> style[4],
     calls |-> <<>>, done |-> FALSE]

ContourStyles == JoinStyles \X Junctions \X Caps \X Caps

\* What stroke_segments is called with: a collected subpath, open or closed
StrokeContours ==
    {ContourOf("stroke", s, closed, 0, Len(s) - 1, FALSE, FALSE, style) :
        s \in ContourSegments, closed \in BOOLEAN, style \in ContourStyles}

\* What dash_segments is called with: a range of segments (from before the
\* first one on a closed subpath), the first of them passed over or not when
\* there is another, or one point of one segment
DashContours ==
    {ContourOf("dash", d[1], d[2], d[3][1], d[3][2], d[3][3], d[3][4], d[4]) :
        d \in {e \in ContourSegments \X BOOLEAN
                     \X (((-1)..1) \X (0..2) \X BOOLEAN \X BOOLEAN) \X ContourStyles :
                  /\ ~e[1][1].zero
                  /\ e[3][1] <= e[3][2]
                  /\ e[3][2] < Len(e[1])
                  /\ e[3][1] < 0 => e[2]
                  /\ e[3][3] => e[3][1] < e[3][2]
                  /\ e[3][4] => (e[3][1] = e[3][2] /\ e[3][1] >= 0)}}

ContourInputs == StrokeContours \cup DashContours

ContourIdle == [done |-> TRUE]

StrokeSegments ==
    /\ sys = "contour"
    /\ ~contour.done
    /\ contour.mode = "stroke"
    /\ contour' = [contour EXCEPT !.calls = stroke_segments_calls(contour), !.done = TRUE]
    /\ UNCHANGED nonContourVars

DashSegments ==
    /\ sys = "contour"
    /\ ~contour.done
    /\ contour.mode = "dash"
    /\ contour' = [contour EXCEPT !.calls = dash_segments_calls(contour), !.done = TRUE]
    /\ UNCHANGED nonContourVars

ContourNext == StrokeSegments \/ DashSegments

(***************************************************************************)
(* raster.rs: Rasterizer::line_to, one round of its loops at a time and in *)
(* 32-bit arithmetic.  A build with overflow checks panics on the first    *)
(* result that leaves the i32 range; a build without them goes on with the *)
(* wrapped result.                                                         *)
(***************************************************************************)
\* i32::wrapping_mul: the low 32 bits of a * b, signed, from 16-bit halves
WrappingMul(a, b) ==
    LET aH == a \div 65536
        aL == a % 65536
        bH == b \div 65536
        bL == b % 65536
        t1 == (aL \div 256) * bL
        t0 == (aL % 256) * bL
        low == (t1 % 256) * 256 + t0
        carry == (t1 \div 256) + (low \div 65536)
        high == (carry + ((aH * bL) % 65536) + ((aL * bH) % 65536)) % 65536
    IN  (IF high >= 32768 THEN high - 65536 ELSE high) * 65536 + (low % 65536)

\* whether a * b leaves the i32 range
MulOverflows(a, b) ==
    IF a = 0 \/ b = 0 THEN FALSE
    ELSE IF a = I32_MIN THEN b # 1
    ELSE IF b = I32_MIN THEN a # 1
    ELSE IF Abs(a) = 1 \/ Abs(b) = 1 THEN FALSE
    ELSE IF (a < 0) = (b < 0)
    THEN Abs(a) > I32_MAX \div Abs(b)
    ELSE Abs(a) > (I32_MAX \div Abs(b))
                      + (IF I32_MAX % Abs(b) = Abs(b) - 1 THEN 1 ELSE 0)

\* a value of line_to with the flag of the overflows on the way to it
Checked(v, overflow) == [v |-> v, overflow |-> overflow]

\* udiv for any two i32 with |b| <= 0x00FFFFFF: the operands are sign
\* extended to u64, so bits 24..55 of the product are floor(a * b / 2^24)
\* in 32 bits; the u64 product overflows when a negative operand meets one
\* that is neither 0 nor 1.
udiv_wrapping(a, b) ==
    LET ah == a \div 16777216
        al == a % 16777216
        a1 == al \div 4096
        a0 == al % 4096
        bh == b \div 4096
        bl == b % 4096
        low == (a1 * bl + a0 * bh + ((a0 * bl) \div 4096)) \div 4096
    IN  Checked(WrappingAdd(ah * b, a1 * bh + low),
                (a < 0 /\ b \notin {0, 1}) \/ (b < 0 /\ a \notin {0, 1}))

\* -a
Neg(a) == Checked(WrappingSub(0, a), a = I32_MIN)

\* udiv(-a, b) and udiv(a, -b)
udiv_of(a, b) == [udiv_wrapping(a.v, b.v) EXCEPT !.overflow = @ \/ a.overflow \/ b.overflow]

\* the sums of one round of the loop: prod - dx * ONE_PIXEL and the others,
\* each with the flag of its own overflow
walk_sums(prod, dxo, dyo, odx, ody) ==
    [p1 |-> WrappingSub(prod, dxo), o1 |-> odx \/ SubOverflows(prod, dxo),
     p3 |-> WrappingAdd(prod, dyo), o3 |-> ody \/ AddOverflows(prod, dyo),
     p4 |-> WrappingSub(prod, dyo), o4 |-> ody \/ SubOverflows(prod, dyo),
     p5 |-> WrappingAdd(prod, dxo), o5 |-> odx \/ AddOverflows(prod, dxo),
     dyo |-> dyo, ody |-> ody]

\* prod - dx * ONE_PIXEL + dy * ONE_PIXEL
walk_sum2(t) ==
    Checked(WrappingAdd(t.p1, t.dyo), t.ody \/ AddOverflows(t.p1, t.dyo))

\* the edge the line leaves the cell through (lines 330-370, the tests)
walk_branch(prod, t, p2) ==
    IF prod <= 0 /\ t.p1 > 0 THEN "left"
    ELSE IF t.p1 <= 0 /\ p2.v > 0 THEN "up"
    ELSE IF p2.v <= 0 /\ t.p3 >= 0 THEN "right"
    ELSE "down"

\* whether one of the sums the round has computed on its way through the
\* tests and in the branch taken has left the i32 range
walk_overflows(branch, t, p2) ==
    \/ t.o1
    \/ branch = "left" /\ t.o4
    \/ branch # "left" /\ p2.overflow
    \/ branch \in {"right", "down"} /\ p2.v <= 0 /\ t.o3
    \/ branch = "down" /\ t.o5

\* what the branch leaves: the cross product, the point where the line
\* leaves the cell, and the cell it enters
walk_left(w, t) ==
    LET fy2 == udiv_of(Neg(w.prod), Neg(w.dx_r))
    IN  [prod |-> t.p4, fx2 |-> 0, fy2 |-> fy2.v, fx1 |-> ONE_PIXEL, fy1 |-> fy2.v,
         ex1 |-> w.ex1 - 1, ey1 |-> w.ey1, overflow |-> fy2.overflow]

walk_up(w, t) ==
    LET fx2 == udiv_of(Neg(t.p1), Checked(w.dy_r, FALSE))
    IN  [prod |-> t.p1, fx2 |-> fx2.v, fy2 |-> ONE_PIXEL, fx1 |-> fx2.v, fy1 |-> 0,
         ex1 |-> w.ex1, ey1 |-> w.ey1 + 1, overflow |-> fx2.overflow]

walk_right(w, t) ==
    LET fy2 == udiv_wrapping(t.p3, w.dx_r)
    IN  [prod |-> t.p3, fx2 |-> ONE_PIXEL, fy2 |-> fy2.v, fx1 |-> 0, fy1 |-> fy2.v,
         ex1 |-> w.ex1 + 1, ey1 |-> w.ey1, overflow |-> fy2.overflow]

walk_down(w, t) ==
    LET fx2 == udiv_of(Checked(w.prod, FALSE), Neg(w.dy_r))
    IN  [prod |-> t.p5, fx2 |-> fx2.v, fy2 |-> 0, fx1 |-> fx2.v, fy1 |-> ONE_PIXEL,
         ex1 |-> w.ex1, ey1 |-> w.ey1 - 1, overflow |-> fx2.overflow]

walk_taken(w, t, branch) ==
    CASE branch = "left" -> walk_left(w, t)
      [] branch = "up" -> walk_up(w, t)
      [] branch = "right" -> walk_right(w, t)
      [] branch = "down" -> walk_down(w, t)

\* self.cover += d; self.area += d * m, given d = fy2 - fy1 and m
accumulate_product(r, d, m, dm, o) ==
    [r |-> [r EXCEPT !.cover = WrappingAdd(r.cover, d), !.area = WrappingAdd(r.area, dm)],
     overflow |-> o \/ MulOverflows(d, m) \/ AddOverflows(r.cover, d)
                    \/ AddOverflows(r.area, dm)]

\* self.cover += fy2 - fy1; self.area += (fy2 - fy1) * (fx1 + fx2)
accumulate_wrapping(r, fy1, fy2, fx1, fx2) ==
    accumulate_product(r, WrappingSub(fy2, fy1), WrappingAdd(fx1, fx2),
                       WrappingMul(WrappingSub(fy2, fy1), WrappingAdd(fx1, fx2)),
                       SubOverflows(fy2, fy1) \/ AddOverflows(fx1, fx2))

\* A line_to call in progress: the Rasterizer, the arguments, the locals of
\* line_to, where the call stands, and, beside the program's state, the
\* point the line starts from, the rounds made, the cell before the last
\* round, the cells between the end points and whether a result has left
\* the i32 range.
LineNew(checked, w, h, from, to) ==
    [r |-> ras_move_to(rasterize_begin(Rasterizer_new(HeapStorageNew), w, h), from),
     from |-> from, to |-> to, checked |-> checked,
     ex1 |-> 0, ey1 |-> 0, ex2 |-> 0, ey2 |-> 0, fx1 |-> 0, fy1 |-> 0,
     dx |-> 0, dy |-> 0, dx_r |-> 0, dy_r |-> 0, prod |-> 0,
     pc |-> "call", steps |-> 0, before |-> FixedPoint(0, 0), cells |-> 0,
     overflow |-> FALSE]

LineIdle == [pc |-> "off"]

\* line_to, lines 273-295 and 322-324: the band test, the locals, and the
\* choice among the four ways through the function
line_to_locals(w) ==
    [w EXCEPT !.ey1 = trunc(w.r.py), !.ey2 = trunc(w.to.y),
              !.ex1 = trunc(w.r.px), !.ex2 = trunc(w.to.x),
              !.fx1 = fract(w.r.px), !.fy1 = fract(w.r.py),
              !.dx = WrappingSub(w.to.x, w.r.px), !.dy = WrappingSub(w.to.y, w.r.py),
              !.overflow = SubOverflows(w.to.x, w.r.px) \/ SubOverflows(w.to.y, w.r.py),
              !.before = FixedPoint(trunc(w.r.px), trunc(w.r.py)),
              !.cells = Abs(trunc(w.to.x) - trunc(w.r.px)) + Abs(trunc(w.to.y) - trunc(w.r.py))]

\* let dx_r = ...; let dy_r = ...
line_to_reciprocals(w) ==
    [w EXCEPT !.dx_r = IF w.ex1 # w.ex2 THEN TruncDiv(16777215, w.dx) ELSE 0,
              !.dy_r = IF w.ey1 # w.ey2 THEN TruncDiv(16777215, w.dy) ELSE 0,
              !.pc = "walk"]

\* let mut prod = dx * fy1 - dy * fx1
line_to_cross(w, a, b) ==
    IF MulOverflows(w.dx, w.fy1) \/ MulOverflows(w.dy, w.fx1) \/ SubOverflows(a, b)
    THEN IF w.checked
         THEN [w EXCEPT !.pc = "panic", !.overflow = TRUE]
         ELSE line_to_reciprocals([w EXCEPT !.prod = WrappingSub(a, b), !.overflow = TRUE])
    ELSE line_to_reciprocals([w EXCEPT !.prod = a - b])

line_to_branch(w) ==
    IF (w.ey1 >= w.r.ymax /\ w.ey2 >= w.r.ymax) \/ (w.ey1 < w.r.ymin /\ w.ey2 < w.r.ymin)
    THEN [w EXCEPT !.r.px = w.to.x, !.r.py = w.to.y, !.pc = "done"]
    ELSE IF w.overflow /\ w.checked
    THEN [w EXCEPT !.pc = "panic"]
    ELSE IF w.ex1 = w.ex2 /\ w.ey1 = w.ey2
    THEN [w EXCEPT !.pc = "finish"]
    ELSE IF w.dy = 0
    THEN [w EXCEPT !.r = [set_cell(w.r, w.ex2, w.ey2) EXCEPT !.px = w.to.x, !.py = w.to.y],
                   !.ex1 = w.ex2, !.pc = "done"]
    ELSE IF w.dx = 0
    THEN [w EXCEPT !.pc = "vertical"]
    ELSE line_to_cross(w, WrappingMul(w.dx, w.fy1), WrappingMul(w.dy, w.fx1))

line_to_begin(w) == line_to_branch(line_to_locals(w))

\* whether cell (x, y) lies in the rectangle of cells spanned by the cells
\* of the two end points
between_ends(w, x, y) ==
    /\ (trunc(w.from.x) <= x /\ x <= w.ex2) \/ (w.ex2 <= x /\ x <= trunc(w.from.x))
    /\ (trunc(w.from.y) <= y /\ y <= w.ey2) \/ (w.ey2 <= y /\ y <= trunc(w.from.y))

\* the end of a round: set_cell and the test that leaves the loop.  The
\* model follows a walk no further ("astray") once it has left the cells
\* between the end points or has made more rounds than there are cells
\* between them: the loop itself goes on.
line_to_entered(w, acc, s, o) ==
    IF w.checked /\ (o \/ acc.overflow)
    THEN [w EXCEPT !.pc = "panic", !.overflow = TRUE]
    ELSE [w EXCEPT !.r = set_cell(acc.r, s.ex1, s.ey1),
                   !.prod = s.prod, !.fx1 = s.fx1, !.fy1 = s.fy1,
                   !.ex1 = s.ex1, !.ey1 = s.ey1,
                   !.before = FixedPoint(w.ex1, w.ey1),
                   !.steps = w.steps + 1,
                   !.overflow = w.overflow \/ o \/ acc.overflow,
                   !.pc = IF s.ex1 = w.ex2 /\ s.ey1 = w.ey2 THEN "finish"
                          ELSE IF w.steps + 1 > w.cells \/ ~between_ends(w, s.ex1, s.ey1)
                          THEN "astray"
                          ELSE w.pc]

\* one round of the loop of lines 298-320 (dx == 0); (fy2 - fy1) * fx1 * 2
\* is summed as (fy2 - fy1) * (fx1 + fx1)
line_to_vertical_step(w) ==
    LET up == w.dy > 0
        fy2 == IF up THEN ONE_PIXEL ELSE 0
        s == [prod |-> w.prod, fx1 |-> w.fx1, fy1 |-> ONE_PIXEL - fy2,
              ex1 |-> w.ex1, ey1 |-> IF up THEN w.ey1 + 1 ELSE w.ey1 - 1]
    IN  line_to_entered(w, accumulate_wrapping(w.r, w.fy1, fy2, w.fx1, w.fx1), s, FALSE)

\* one round of the loop of lines 329-372
line_to_taken(w, s, o) ==
    line_to_entered(w, accumulate_wrapping(w.r, w.fy1, s.fy2, w.fx1, s.fx2), s,
                    o \/ s.overflow)

line_to_chosen(w, t, p2, branch) ==
    line_to_taken(w, walk_taken(w, t, branch), walk_overflows(branch, t, p2))

line_to_tested(w, t, p2) == line_to_chosen(w, t, p2, walk_branch(w.prod, t, p2))

line_to_summed(w, t) == line_to_tested(w, t, walk_sum2(t))

line_to_step(w) ==
    line_to_summed(w, walk_sums(w.prod, WrappingShl(w.dx, PIXEL_BITS),
                                WrappingShl(w.dy, PIXEL_BITS),
                                MulOverflows(w.dx, ONE_PIXEL), MulOverflows(w.dy, ONE_PIXEL)))

\* lines 374-379: the part of the line inside the last cell
line_to_end(w, acc) ==
    IF w.checked /\ acc.overflow
    THEN [w EXCEPT !.pc = "panic", !.overflow = TRUE]
    ELSE [w EXCEPT !.r = [acc.r EXCEPT !.px = w.to.x, !.py = w.to.y],
                   !.overflow = w.overflow \/ acc.overflow,
                   !.pc = "done"]

line_to_finish(w) ==
    line_to_end(w, accumulate_wrapping(w.r, w.fy1, fract(w.to.y), w.fx1, fract(w.to.x)))

(***************************************************************************)
(* line_to as a state machine: one call, a round of its loop per step.     *)
(***************************************************************************)
\* coordinates of the end points of short lines: on the edges of the first
\* three cells, next to them and in the middle
NearCoords == {c * ONE_PIXEL + f : c \in 0..(NearCells - 1), f \in {0, 128, 255}}

\* the largest fixed-point coordinate whose pixel is at most 32767
MaxFixed == 32768 * ONE_PIXEL - 1

\* the largest one whose pixel is at most 16383
HalfFixed == 16384 * ONE_PIXEL - 1

\* lines across the whole range: along the diagonal, across it, and two
\* across half the range
FarLines ==
    {<<FixedPoint(0, 0), FixedPoint(MaxFixed, MaxFixed)>>,
     <<FixedPoint(100, 200), FixedPoint(MaxFixed, MaxFixed - 77)>>,
     <<FixedPoint(255, MaxFixed), FixedPoint(MaxFixed, 0)>>,
     <<FixedPoint(255, HalfFixed), FixedPoint(HalfFixed, 0)>>,
     <<FixedPoint(HalfFixed, 77), FixedPoint(3, HalfFixed)>>}

LineInputs ==
    {LineNew(TRUE, NearCells - 1, NearCells - 1, FixedPoint(x1, y1), FixedPoint(x2, y2)) :
        x1 \in NearCoords, y1 \in NearCoords, x2 \in NearCoords, y2 \in NearCoords}
    \cup {LineNew(checked, 2, 2, l[1], l[2]) : checked \in BOOLEAN, l \in FarLines}

LineToBegin ==
    /\ sys = "cells"
    /\ cellwalk.pc = "call"
    /\ cellwalk' = line_to_begin(cellwalk)
    /\ UNCHANGED nonCellVars

LineToVertical ==
    /\ sys = "cells"
    /\ cellwalk.pc = "vertical"
    /\ cellwalk' = line_to_vertical_step(cellwalk)
    /\ UNCHANGED nonCellVars

LineToWalk ==
    /\ sys = "cells"
    /\ cellwalk.pc = "walk"
    /\ cellwalk' = line_to_step(cellwalk)
    /\ UNCHANGED nonCellVars

LineToFinish ==
    /\ sys = "cells"
    /\ cellwalk.pc = "finish"
    /\ cellwalk' = line_to_finish(cellwalk)
    /\ UNCHANGED nonCellVars

CellNext ==
    \/ LineToBegin
    \/ LineToVertical
    \/ LineToWalk
    \/ LineToFinish

(***************************************************************************)
(* stroke.rs: the inner loop of Stroker::dash, one Dasher::next call per   *)
(* step, on one collected subpath.  A run keeps the number of calls made   *)
(* and a mark: the Dasher as it was at an earlier call of the run, index   *)
(* taken modulo the length of the dash array (all that next_dash reads of  *)
(* it).  Dasher::next is a function of the Dasher, the segments and the    *)
(* dashes, so a Dasher that comes back to the mark goes round for ever.    *)
(***************************************************************************)
\* The Dasher with its index reduced to the position in the dash array
Dasher_normal(d, dashes) == [d EXCEPT !.index = @ % Len(dashes)]

\* Stroker::dash once collect has returned segments and dasher.init has run
DashingNew(kind, segments, is_closed, v, calls, d) ==
    [kind |-> kind, segments |-> segments, is_closed |-> is_closed,
     dashes |-> v.dashes, offset |-> v.offset, d |-> d, op |-> "None",
     calls |-> calls, steps |-> 0, mark |-> Dasher_normal(d, v.dashes), pc |-> "loop"]

DashingIdle == [pc |-> "off"]

\* Stroker::dash: "match dasher.next(segments, dashes)", with the result n
\* of the call; Done and Stroke break the loop
Stroker_dash_match(r, n) ==
    [r EXCEPT !.d = n.d, !.op = n.op, !.calls = @ + 1, !.steps = @ + 1,
              !.pc = IF n.op \in {"Done", "Stroke"} THEN "break"
                     ELSE IF Dasher_normal(n.d, r.dashes) = r.mark THEN "again"
                     ELSE "loop",
              !.mark = IF (r.steps + 1) % (2 * Len(r.dashes)) = 0
                       THEN Dasher_normal(n.d, r.dashes) ELSE @]

\* Stroker::dash, one round of the inner loop
Stroker_dash_round(r) == Stroker_dash_match(r, Dasher_next(r.d, r.segments, r.dashes))

\* The subpaths: one line, two lines, a closed triangle (sides 4., 3., 5.)
TermPaths ==
    {<<LineTo(Point(8, 0))>>,
     <<LineTo(Point(8, 0)), LineTo(Point(8, 6))>>,
     <<LineTo(Point(8, 0)), LineTo(Point(8, 6)), Close>>}

\* Dashes 0., 0.5, 1. and 2.5; offsets -1.5, 0., 0.5 and 3.5
TermValues == {0, 1, 2, 5}
TermOffsets == {-3, 0, 1, 7}

\* stroke_into and Stroker::dash up to the inner loop, for the dash arrays
\* that validate_dashes accepts
TermStart(c, v) ==
    DashingNew("near", c.segments, c.is_closed, v, 0,
               Dasher_init(Dasher_default(v.empty_gaps), c.is_closed, v.dashes, v.offset))

TermInputs ==
    {TermStart(StrokerStorage_collect(Segments_new(in[1]), <<>>),
               validate_dashes(in[2], in[3])) :
        in \in {x \in TermPaths \X DashArrays(TermValues, MaxTermLen) \X TermOffsets :
                    validate_dashes(x[2], x[3]).dashes # <<>>}}

\* One line of 16,777,232. (2^24 + 16) with dashes [1., 1.] and no offset.
FarLength == 2 * F32_EXACT + 32
FarCollected == StrokerStorage_collect(Segments_new(<<LineTo(Point(FarLength, 0))>>), <<>>)
FarDashes == validate_dashes(<<2, 2>>, 0)

\* The Dasher of that run after k >= 1 calls: every call so far has moved
\* t0_offset on by one dash, 2k halves in all, exactly (2k <= 2^25).
DasherAfter(k) ==
    [done |-> FALSE, is_closed |-> FALSE, empty_gaps |-> FALSE, on |-> (k % 2 = 0),
     cur |-> 0, t0 |-> Time(2 * k, FarLength), t0_offset |-> 2 * k, index |-> k,
     is_first |-> FALSE, first_on |-> TRUE, first_dash |-> 2, is_dot |-> FALSE,
     range |-> <<0, 0>>,
     trange |-> IF k <= 2 THEN <<Time(0, 1), Time(2, FarLength)>>
                ELSE <<Time(2 * (k - ((k + 1) % 2)) - 2, FarLength),
                       Time(2 * (k - ((k + 1) % 2)), FarLength)>>]

\* The calls of that run the model takes up: its first ones, and those
\* that bring t0_offset to 2^24
FarRounds == {0, 1, 1000, F32_EXACT - 1000, F32_EXACT - MaxDashSteps + 8}

FarInputs ==
    {DashingNew("far", FarCollected.segments, FALSE, FarDashes, k,
                IF k = 0 THEN Dasher_init(Dasher_default(FALSE), FALSE, FarDashes.dashes, 0)
                ELSE DasherAfter(k)) : k \in FarRounds}

DashingInputs == TermInputs \cup FarInputs

\* Stroker::dash: "loop { match dasher.next(segments, dashes) ... }", one
\* round; the model follows a run for MaxDashSteps rounds
DashingCall ==
    /\ sys = "dash"
    /\ dashing.pc = "loop"
    /\ dashing.steps < MaxDashSteps
    /\ dashing' = Stroker_dash_round(dashing)
    /\ UNCHANGED nonDashingVars

DashingNext == DashingCall

(***************************************************************************)
(* svg_parser.rs: SvgCommands::parse with the points it reads, for the     *)
(* commands M, L, C, S, Q, T, their relative forms and Z/z (H, V and the   *)
(* arcs are left out: no arc is ever pending).  The sources hold whole     *)
(* numbers, so the value of a number is that of its digits before a '.'.   *)
(***************************************************************************)
SvgDigitSeq == <<"0", "1", "2", "3", "4", "5", "6", "7", "8", "9">>

\* the value of one digit
DigitValue(c) == (CHOOSE k \in 1..10 : SvgDigitSeq[k] = c) - 1

\* SvgCommands::new with the points and last_cmd
SvgPoints_new(source) ==
    [buf |-> source, cur |-> NUL, pos |-> 0, cmd_pos |-> 0,
     error |-> FALSE, done |-> FALSE,
     start_point |-> Point(0, 0), cur_point |-> Point(0, 0),
     last_control |-> Point(0, 0), last_cmd |-> NUL,
     state |-> [tag |-> "Initial", cmd |-> NUL]]

\* The loop of SvgCommands::number with the value v of the digits so far
RECURSIVE svg_number_value_loop(_, _, _, _, _)
svg_number_value_loop(p, n, has_decimal, digits, v) ==
    IF p.cur = "." /\ ~has_decimal
    THEN IF n >= 32 THEN [ok |-> FALSE, p |-> p, v |-> 0]
         ELSE svg_number_value_loop(svg_advance(p), n + 1, TRUE, digits, v)
    ELSE IF p.cur \in SvgDigits
    THEN IF n >= 32 THEN [ok |-> FALSE, p |-> p, v |-> 0]
         ELSE svg_number_value_loop(svg_advance(p), n + 1, has_decimal, digits + 1,
                                    IF has_decimal THEN v ELSE 10 * v + DigitValue(p.cur))
    ELSE [ok |-> digits > 0, p |-> p, v |-> v]

\* Some(-self.number()?)
svg_negated(r) == [r EXCEPT !.v = -@]

\* SvgCommands::coord
svg_coord_value(p) ==
    IF p.cur = "+" THEN svg_number_value_loop(svg_advance(p), 0, FALSE, 0, 0)
    ELSE IF p.cur = "-"
    THEN svg_negated(svg_number_value_loop(svg_advance(p), 0, FALSE, 0, 0))
    ELSE svg_number_value_loop(p, 0, FALSE, 0, 0)

\* SvgCommands::point, from its first coordinate a on
svg_point_second(a, b) == [ok |-> b.ok, p |-> b.p, v |-> Point(a.v, b.v)]

svg_point_after(a) ==
    IF ~a.ok THEN [ok |-> FALSE, p |-> a.p, v |-> Point(0, 0)]
    ELSE svg_point_second(a, svg_coord_value(svg_skip_comma_whitespace(a.p)))

\* SvgCommands::point
svg_point_value(p) == svg_point_after(svg_coord_value(p))

\* SvgCommands::rel_point: p + self.cur_point
svg_rel(r, rel) ==
    IF rel /\ r.ok
    THEN [r EXCEPT !.v = Point(r.v.x + r.p.cur_point.x, r.v.y + r.p.cur_point.y)]
    ELSE r

\* SvgCommands::point_to, rel_point_to: self.cur_point = p
svg_to(r, to) == IF to /\ r.ok THEN [r EXCEPT !.p.cur_point = r.v] ELSE r

\* point (rel = FALSE, to = FALSE), point_to, rel_point, rel_point_to
svg_read_point(p, rel, to) == svg_to(svg_rel(svg_point_value(p), rel), to)

\* two_points, two_points_to, rel_two_points, rel_two_points_to, from the
\* first point a on
svg_two(a, b) == [ok |-> b.ok, p |-> b.p, a |-> a.v, b |-> b.v]

svg_two_after(a, rel, to) ==
    IF ~a.ok THEN [ok |-> FALSE, p |-> a.p, a |-> a.v, b |-> a.v]
    ELSE svg_two(a, svg_read_point(svg_skip_comma_whitespace(a.p), rel, to))

svg_two_points(p, rel, to) == svg_two_after(svg_read_point(p, rel, FALSE), rel, to)

\* three_points_to, rel_three_points_to, from the first point a on
svg_three(a, r) == [ok |-> r.ok, p |-> r.p, a |-> a.v, b |-> r.a, c |-> r.b]

svg_three_after(a, rel) ==
    IF ~a.ok THEN [ok |-> FALSE, p |-> a.p, a |-> a.v, b |-> a.v, c |-> a.v]
    ELSE svg_three(a, svg_two_points(svg_skip_comma_whitespace(a.p), rel, TRUE))

svg_three_points_to(p, rel) == svg_three_after(svg_read_point(p, rel, FALSE), rel)

\* 2. * cur - old
Reflected(cur, old) == Point(2 * cur.x - old.x, 2 * cur.y - old.y)

\* SvgCommands::reflected_control
reflected_control(p, cmd) ==
    IF cmd \in {"S", "s"}
    THEN IF p.last_cmd \in {"C", "c", "S", "s"}
         THEN Reflected(p.cur_point, p.last_control) ELSE p.cur_point
    ELSE IF p.last_cmd \in {"Q", "q", "T", "t"}
         THEN Reflected(p.cur_point, p.last_control) ELSE p.cur_point

\* The arms of parse once the points r are read: "?" returns None
svg_none(r) == [p |-> r.p, out |-> NoCommand]

svg_move(r) ==
    IF r.ok
    THEN [p |-> svg_skip_comma_whitespace([r.p EXCEPT !.start_point = r.v]),
          out |-> MoveTo(r.v)]
    ELSE svg_none(r)

svg_line(r) ==
    IF r.ok THEN [p |-> svg_skip_comma_whitespace(r.p), out |-> LineTo(r.v)]
    ELSE svg_none(r)

svg_curve(r) ==
    IF r.ok
    THEN [p |-> svg_skip_comma_whitespace([r.p EXCEPT !.last_control = r.b]),
          out |-> CurveTo(r.a, r.b, r.c)]
    ELSE svg_none(r)

svg_smooth_curve(r, cmd) ==
    IF r.ok
    THEN [p |-> svg_skip_comma_whitespace([r.p EXCEPT !.cur_point = r.b,
                                                      !.last_control = r.a]),
          out |-> CurveTo(reflected_control(r.p, cmd), r.a, r.b)]
    ELSE svg_none(r)

svg_quad(r) ==
    IF r.ok
    THEN [p |-> svg_skip_comma_whitespace([r.p EXCEPT !.last_control = r.a]),
          out |-> QuadTo(r.a, r.b)]
    ELSE svg_none(r)

svg_smooth_quad(r, cmd) ==
    IF r.ok
    THEN [p |-> svg_skip_comma_whitespace(
                    [r.p EXCEPT !.cur_point = r.v,
                                !.last_control = reflected_control(r.p, cmd)]),
          out |-> QuadTo(reflected_control(r.p, cmd), r.v)]
    ELSE svg_none(r)

\* parse, State::Next up to "match cmd": cmd is kept in the state
svg_next_begun(p) ==
    [svg_skip_whitespace(svg_advance([p EXCEPT !.cmd_pos = p.pos]))
        EXCEPT !.state = [tag |-> "Continue", cmd |-> p.cur]]

\* parse, State::Next, "match cmd"
svg_next_match(p, cmd) ==
    CASE cmd \in {"z", "Z"} ->
            [p |-> [p EXCEPT !.state.tag = "Next", !.cur_point = p.start_point],
             out |-> Close]
      [] cmd \in {"M", "m"} -> svg_move(svg_read_point(p, cmd = "m", TRUE))
      [] cmd \in {"L", "l"} -> svg_line(svg_read_point(p, cmd = "l", TRUE))
      [] cmd \in {"C", "c"} -> svg_curve(svg_three_points_to(p, cmd = "c"))
      [] cmd \in {"S", "s"} -> svg_smooth_curve(svg_two_points(p, cmd = "s", FALSE), cmd)
      [] cmd \in {"Q", "q"} -> svg_quad(svg_two_points(p, cmd = "q", TRUE))
      [] cmd \in {"T", "t"} -> svg_smooth_quad(svg_read_point(p, cmd = "t", FALSE), cmd)
      [] OTHER -> [p |-> svg_unknown_command(p, cmd), out |-> NoCommand]

svg_next(p) == svg_next_match(p, p.state.cmd)

\* parse, State::Continue(c) when the first read a came off: the command
svg_continue_read(a, c) ==
    CASE c \in {"M", "m", "L", "l"} -> svg_line(a)
      [] c \in {"C", "c"} -> svg_curve(svg_three_after(a, c = "c"))
      [] c \in {"S", "s"} -> svg_smooth_curve(svg_two_after(a, c = "s", FALSE), c)
      [] c \in {"Q", "q"} ->              \* self.last_control = c comes first
            svg_quad(svg_two_after([a EXCEPT !.p.last_control = a.v], c = "q", TRUE))
      [] c \in {"T", "t"} -> svg_smooth_quad(a, c)

\* SvgCommands::parse: its loop; cmd is the local variable, which starts
\* as self.cur and is assigned in State::Next only.
RECURSIVE svg_parse_loop(_, _)
svg_continue_first(a, c, cmd) ==
    IF a.ok THEN svg_continue_read(a, c)
    ELSE svg_parse_loop([a.p EXCEPT !.state.tag = "Next"], cmd)

svg_parse_state(p, cmd) ==
    CASE p.state.tag = "Initial" ->
            svg_parse_loop([svg_skip_whitespace(svg_advance(p)) EXCEPT !.state.tag = "Next"],
                           cmd)
      [] p.state.tag = "Next" -> svg_next(svg_next_begun(svg_skip_whitespace(p)))
      [] p.state.tag = "Continue" ->
            IF p.state.cmd \in {"M", "m", "L", "l", "C", "c", "S", "s", "Q", "q", "T", "t"}
            THEN svg_continue_first(
                     svg_read_point(p, p.state.cmd \in {"m", "l", "c", "s", "q", "t"},
                                    p.state.cmd \in {"M", "m", "L", "l"}),
                     p.state.cmd, cmd)
            ELSE [p |-> svg_unknown_command(p, p.state.cmd), out |-> NoCommand]

svg_parse_loop(p, cmd) == svg_parse_state([p EXCEPT !.last_cmd = cmd], cmd)

\* SvgCommands::parse: "let mut cmd = self.cur"
svg_parse_points(p) == svg_parse_loop(p, p.cur)


(***************************************************************************)
(* The sources: up to MaxSmoothCmds commands, each a letter with its       *)
(* numbers or the numbers alone (the command before, repeated); the        *)
(* numbers of a command are the first of one of two rows of digits.        *)
(***************************************************************************)
SmoothLetters == {"M", "L", "C", "c", "S", "s", "Q", "q", "T", "t"}
Repeated == "="

\* how many numbers a command takes
NumbersOf(letter) ==
    IF letter \in {"C", "c"} THEN 6
    ELSE IF letter \in {"S", "s", "Q", "q"} THEN 4
    ELSE IF letter \in {"z", "Z"} THEN 0 ELSE 2

SmoothRows == <<<<"1", "2", "3", "4", "5", "6">>, <<"7", "5", "3", "1", "8", "6">>>>

SmoothWords ==
    ((SmoothLetters \cup {Repeated}) \X DOMAIN SmoothRows) \cup {<<"Z", 1>>}

RECURSIVE SmoothLists(_)
SmoothLists(n) ==
    IF n = 0 THEN {<<>>}
    ELSE LET shorter == SmoothLists(n - 1)
         IN  shorter \cup {Append(l, w) : l \in {t \in shorter : Len(t) = n - 1},
                                           w \in SmoothWords}

\* the numbers of a word, each followed by a space
RECURSIVE NumbersText(_, _)
NumbersText(row, n) ==
    IF n = 0 THEN <<>> ELSE NumbersText(row, n - 1) \o <<row[n], " ">>

\* The text of a list of words; letter is the command in force.  A list
\* that repeats no command, or Z, has no text.
RECURSIVE SmoothText(_, _, _)
SmoothText(l, k, letter) ==
    IF k > Len(l) THEN <<>>
    ELSE IF l[k][1] = Repeated
    THEN <<>> \o NumbersText(SmoothRows[l[k][2]], NumbersOf(letter))
              \o SmoothText(l, k + 1, letter)
    ELSE <<l[k][1]>> \o NumbersText(SmoothRows[l[k][2]], NumbersOf(l[k][1]))
                     \o SmoothText(l, k + 1, l[k][1])

\* a word repeats a command only after one that takes numbers
RepeatsWell(l) ==
    \A k \in DOMAIN l : l[k][1] = Repeated => (k > 1 /\ l[k - 1][1] # "Z")

SmoothSources ==
    {SmoothText(l, 1, NUL) : l \in {x \in SmoothLists(MaxSmoothCmds) : RepeatsWell(x)}}

\* A yield of the iterator with what the claim needs of the call: the
\* letter of its command, whether the letter stood in the source, and
\* cur_point and last_control as the call found them.
Yield(out, letter, explicit, cur, old) ==
    [out |-> out, letter |-> letter, explicit |-> explicit, cur |-> cur, old |-> old]

NoYield == Yield(NoCommand, NUL, FALSE, Point(0, 0), Point(0, 0))

SmoothNew(source) ==
    [p |-> SvgPoints_new(source), last |-> NoYield, prev |-> NoYield,
     count |-> 0, done |-> FALSE]

SmoothIdle == [done |-> TRUE]

\* Iterator::next for SvgCommands, with the result r of parse
SmoothTaken(s, r) ==
    IF r.out = NoCommand
    THEN [s EXCEPT !.p = r.p, !.done = TRUE]
    ELSE [s EXCEPT !.p = r.p, !.prev = s.last, !.count = @ + 1,
                   !.last = Yield(r.out,
                                  IF r.out = Close THEN "Z" ELSE r.p.state.cmd,
                                  r.p.cmd_pos # s.p.cmd_pos \/ s.p.state.tag = "Initial",
                                  s.p.cur_point, s.p.last_control)]

\* Iterator::next: a command
SmoothYield ==
    /\ sys = "smooth"
    /\ ~svgPts.done
    /\ svg_parse_points(svgPts.p).out # NoCommand
    /\ svgPts' = SmoothTaken(svgPts, svg_parse_points(svgPts.p))
    /\ UNCHANGED nonSvgPtsVars

\* Iterator::next: None
SmoothEnd ==
    /\ sys = "smooth"
    /\ ~svgPts.done
    /\ svg_parse_points(svgPts.p).out = NoCommand
    /\ svgPts' = SmoothTaken(svgPts, svg_parse_points(svgPts.p))
    /\ UNCHANGED nonSvgPtsVars

SmoothNext == SmoothYield \/ SmoothEnd

(***************************************************************************)
(* Specifications.                                                         *)
(***************************************************************************)
\* The initial state when subsystem `s` runs: that subsystem as constructed
\* (with its inputs drawn from their sets), the others switched off.
InitOf(s) ==
    /\ sys = s
    /\ ras = Rasterizer_new(HeapStorageNew)
    /\ buffer = <<>>
    /\ rasPc = "idle"
    /\ rasArgs = [w |-> 0, h |-> 0, fill |-> "NonZero", y_up |-> FALSE,
                  stale_cells |-> FALSE, stale_cover |-> FALSE]
    /\ rasCmds = <<>>
    /\ rasCalls = 0
    /\ covIn \in (IF s = "coverage" THEN CovInputs ELSE {0})
    /\ covOut = <<>>
    /\ svg \in {SvgCommands_new(src) :
                    src \in (IF s = "svg" THEN SvgStrings(MaxSvgLen) ELSE {<<>>})}
    /\ svgOut = <<>>
    /\ svgRes = <<>>
    /\ pcCmds \in (IF s = "points" THEN PcCommandLists(MaxPcCmds) ELSE {<<>>})
    /\ pcPoints = <<>>
    /\ pcVerbs = <<>>
    /\ pcPc = "new"
    /\ pcIt = PointsCommands_new(<<>>, <<>>)
    /\ pcYield = [cmds |-> <<>>, ended |-> FALSE]
    /\ pcSink = [calls |-> <<>>, copied |-> FALSE]
    /\ vtx \in {Vertices_new(path) :
                    path \in (IF s = "vertices" THEN LinePaths(MaxVtxCmds) ELSE {<<>>})}
    /\ vtxOut = <<>>
    /\ vtxDone = FALSE
    /\ \E path \in (IF s = "walk" THEN LinePaths(MaxWalkCmds) ELSE {<<>>}) :
          /\ walkA = [walk |-> Walk_new(path), steps |-> 0, out |-> NoStep]
          /\ walkB = [walk |-> Walk_new(path), steps |-> 0, out |-> NoStep]
    /\ walkD \in (IF s = "walk" THEN WalkDistances \X WalkDistances ELSE {<<0, 0>>})
    /\ mask = Mask_new
    /\ maskBounds \in (IF s = "mask" THEN MaskBounds
                                      ELSE {[min |-> Point(0, 0), max |-> Point(0, 0)]})
    /\ maskCalls = <<>>
    /\ maskOut = <<>>
    /\ stroke \in (IF s = "stroke" THEN StrokeInputs
                   ELSE IF s = "wrap" THEN WrapInputs(MaxWrapCmds)
                   ELSE {Stroker_new(<<>>, Stroke(<<>>, 0, "Butt", "Butt"))})
    /\ \E in \in (IF s = "odd" THEN OddInputs ELSE {<<<<>>, Stroke(<<>>, 0, "Butt", "Butt")>>}) :
          /\ oddA = Stroker_new(in[1], in[2])
          /\ oddB = Stroker_new(in[1], [in[2] EXCEPT !.dashes = @ \o @])
    /\ store = IF s = "store" THEN StoreNew ELSE StoreIdle
    /\ iters \in (IF s = "segs" THEN {SegsNew(c) : c \in SegInputs}
                  ELSE IF s = "split" THEN {SegsNew(c) : c \in SplitInputs}
                  ELSE {SegsIdle})
    /\ joiner \in (IF s = "join" THEN JoinInputs(JoinStyles) ELSE {JoinIdle})
    /\ solver \in {SolverNew(c) : c \in (IF s = "solve" THEN Candidates ELSE {<<0, 0, 0>>})}
    /\ subdiv \in (IF s = "curve" THEN SubdivInputs ELSE {SubdivIdle})
    /\ contour \in (IF s = "contour" THEN ContourInputs ELSE {ContourIdle})
    /\ cellwalk \in (IF s = "cells" THEN LineInputs ELSE {LineIdle})
    /\ dashing \in (IF s = "dash" THEN DashingInputs ELSE {DashingIdle})
    /\ svgPts \in (IF s = "smooth" THEN {SmoothNew(src) : src \in SmoothSources}
                   ELSE {SmoothIdle})

SpecRaster == InitOf("raster") /\ [][RasNext]_vars
SpecCoverage == InitOf("coverage") /\ [][CovNext]_vars
SpecSvg == InitOf("svg") /\ [][SvgNext]_vars
SpecPoints == InitOf("points") /\ [][PcNext]_vars
SpecVertices == InitOf("vertices") /\ [][VtxNext]_vars
SpecWalk == InitOf("walk") /\ [][WalkNext]_vars
SpecMask == InitOf("mask") /\ [][MaskNext]_vars
SpecStroke == InitOf("stroke") /\ [][StrokeNext]_vars
SpecOdd == InitOf("odd") /\ [][OddNext]_vars
SpecWrap == InitOf("wrap") /\ [][StrokeNext]_vars
SpecClip == InitOf("clip") /\ [][RasNext]_vars
SpecStore == InitOf("store") /\ [][StoreNext]_vars
SpecSegs == InitOf("segs") /\ [][SegNext]_vars
SpecJoin == InitOf("join") /\ [][JoinNext]_vars
SpecSolve == InitOf("solve") /\ [][SolveNext]_vars
SpecSplit == InitOf("split") /\ [][SegNext]_vars
SpecCurve == InitOf("curve") /\ [][CurveNext]_vars
SpecContour == InitOf("contour") /\ [][ContourNext]_vars

\* One line_to call, a round of its loop per step.
SpecCells == InitOf("cells") /\ [][CellNext]_vars
SpecDash == InitOf("dash") /\ [][DashingNext]_vars
SpecSmooth == InitOf("smooth") /\ [][SmoothNext]_vars

(***************************************************************************)
(* C1: rendering is deterministic under scratch reuse: what a rasterize    *)
(* call on a reused Rasterizer and storage leaves in the zero-initialised  *)
(* buffer is what a never-used Rasterizer and storage write for the same   *)
(* arguments and the same builder calls.                                   *)
(***************************************************************************)
C1_Deterministic ==
    (rasPc = "idle" /\ rasCalls > 0) => buffer = FreshRender(rasArgs, rasCmds)

\* A second call that found old cells and non-zero accumulators, and painted.
C1_Witness ==
    /\ rasPc = "idle"
    /\ rasCalls = 2
    /\ rasArgs.stale_cells
    /\ rasArgs.stale_cover
    /\ \E j \in DOMAIN buffer : buffer[j] \notin {0, 255}
    /\ \E j \in DOMAIN buffer : buffer[j] = 0

(***************************************************************************)
(* C2: EvenOdd and NonZero agree for every accumulated coverage value      *)
(* between 0 and 2 * ONE_PIXEL * ONE_PIXEL, the values of winding numbers  *)
(* 0 and 1.                                                                *)
(***************************************************************************)
C2_FillRulesAgree ==
    (covOut # <<>> /\ 0 <= covIn /\ covIn <= 2 * ONE_PIXEL * ONE_PIXEL)
        => covOut["EvenOdd"] = covOut["NonZero"]

\* Full coverage (winding number 1): the value where EvenOdd starts to mirror.
C2_Witness ==
    /\ covOut # <<>>
    /\ covIn = 2 * ONE_PIXEL * ONE_PIXEL
    /\ covOut["EvenOdd"] = 255
    /\ covOut["NonZero"] = 255


(***************************************************************************)
(* The path data grammar the claim C3 refers to, for the commands of the   *)
(* model: wsp* (command)*, a command being Z or z, or M or L followed by   *)
(* one or more points; a point is two numbers; numbers and points may be   *)
(* separated by white space and one comma.  Indices are 1-based here.      *)
(***************************************************************************)
RECURSIVE SvgRefSkipWsp(_, _)
SvgRefSkipWsp(s, i) ==
    IF i <= Len(s) /\ s[i] \in SvgWhitespace THEN SvgRefSkipWsp(s, i + 1) ELSE i

SvgRefSkipCommaWsp(s, i) ==
    LET j == SvgRefSkipWsp(s, i)
    IN  IF j <= Len(s) /\ s[j] = "," THEN SvgRefSkipWsp(s, j + 1) ELSE j

RECURSIVE SvgRefDigitsEnd(_, _)
SvgRefDigitsEnd(s, i) ==
    IF i <= Len(s) /\ s[i] \in SvgDigits THEN SvgRefDigitsEnd(s, i + 1) ELSE i

\* A number at index i: its end, or the index where it breaks.
SvgRefNumber(s, i) ==
    LET j == IF i <= Len(s) /\ s[i] \in {"+", "-"} THEN i + 1 ELSE i
        k == SvgRefDigitsEnd(s, j)
    IN  [ok |-> k > j, at |-> k]

\* The 1-based index of the first character that breaks the grammar
\* (Len(s) + 1 when the string ends inside a command), 0 for none.
\* st: "cmd" a command letter or the end is due; "x", "y" a coordinate is
\* due; "more" a further point or a command letter or the end may follow.
RECURSIVE SvgRefScan(_, _, _)
SvgRefScan(s, i, st) ==
    CASE st = "cmd" ->
            LET j == SvgRefSkipWsp(s, i)
            IN  IF j > Len(s) THEN 0
                ELSE IF s[j] \in {"Z", "z"} THEN SvgRefScan(s, j + 1, "cmd")
                ELSE IF s[j] \in {"M", "L"}
                THEN SvgRefScan(s, SvgRefSkipWsp(s, j + 1), "x")
                ELSE j
      [] st = "x" ->
            LET n == SvgRefNumber(s, i)
            IN  IF n.ok THEN SvgRefScan(s, SvgRefSkipCommaWsp(s, n.at), "y") ELSE n.at
      [] st = "y" ->
            LET n == SvgRefNumber(s, i)
            IN  IF n.ok THEN SvgRefScan(s, SvgRefSkipCommaWsp(s, n.at), "more") ELSE n.at
      [] st = "more" ->
            IF i <= Len(s) /\ s[i] \in (SvgDigits \cup {"+", "-"})
            THEN SvgRefScan(s, i, "x")
            ELSE SvgRefScan(s, i, "cmd")

\* The byte offset of the first invalid character, -1 for well-formed data.
SvgFirstInvalid(s) == SvgRefScan(s, 1, "cmd") - 1

(***************************************************************************)
(* C3: validate_svg(s) returns Ok(()) exactly when s is well-formed path   *)
(* data, and otherwise Err(i) with i the byte offset of the first invalid  *)
(* character, also when the invalid character or the end of the string is  *)
(* met inside a command's arguments (no offset is asked of the Err when    *)
(* it is the end of the string that breaks the data).                      *)
(***************************************************************************)
C3_ValidateExact ==
    svgRes # <<>> =>
        LET bad == SvgFirstInvalid(svg.buf)
        IN  IF bad = -1
            THEN svgRes = <<"Ok">>
            ELSE /\ svgRes[1] = "Err"
                 /\ bad < Len(svg.buf) => svgRes[2] = bad

\* validate_svg("M1,X") has returned Ok(()).
C3_Witness ==
    /\ svg.buf = <<"M", "1", ",", "X">>
    /\ svgRes = <<"Ok">>


\* The sink call that delivers a command.
SinkCallOf(cmd) == SinkCall(
    CASE cmd.op = "MoveTo" -> "move_to" [] cmd.op = "LineTo" -> "line_to"
      [] cmd.op = "QuadTo" -> "quad_to" [] cmd.op = "CurveTo" -> "curve_to"
      [] cmd.op = "Close" -> "close",
    CommandPoints(cmd))

\* The number of leading commands of cmds whose points are all among the
\* first n points.
RECURSIVE PcServed(_, _)
PcServed(cmds, n) ==
    IF cmds = <<>> \/ Len(CommandPoints(Head(cmds))) > n THEN 0
    ELSE 1 + PcServed(Tail(cmds), n - Len(CommandPoints(Head(cmds))))

(***************************************************************************)
(* C4: the path representations are equivalent: for (points, verbs) arrays *)
(* that encode a command list, a loop over PointsCommands receives exactly *)
(* the commands copy_to delivers to a sink, in the same order; these are   *)
(* the commands of the list, all of them when the points suffice, and      *)
(* otherwise those before the first verb whose points are missing, where   *)
(* both stop.                                                              *)
(***************************************************************************)
C4_RepresentationsAgree ==
    (pcPc = "tags" /\ pcYield.ended /\ pcSink.copied) =>
        /\ pcSink.calls = [k \in DOMAIN pcYield.cmds |-> SinkCallOf(pcYield.cmds[k])]
        /\ pcYield.cmds = SubSeq(pcCmds, 1, PcServed(pcCmds, Len(pcPoints)))

\* A list with a curve was looped over and copied with points missing: both
\* stopped inside the list, after at least a curve.
C4_Witness ==
    /\ pcPc = "tags" /\ pcYield.ended /\ pcSink.copied
    /\ Len(pcPoints) < Len(PcPointsOf(pcCmds))
    /\ Len(pcYield.cmds) >= 2
    /\ Len(pcYield.cmds) < Len(pcCmds)
    /\ \E k \in DOMAIN pcYield.cmds : pcYield.cmds[k].op \in {"QuadTo", "CurveTo"}
    /\ Len(pcSink.calls) = Len(pcYield.cmds)

(***************************************************************************)
(* C5: Command::verb returns the command's tag with the coordinates        *)
(* stripped (MoveTo -> MoveTo, LineTo -> LineTo, QuadTo -> QuadTo,         *)
(* CurveTo -> CurveTo, Close -> Close), so a command list converted to     *)
(* (points, verbs) with verb() and read back through PointsCommands gives  *)
(* the original list.                                                      *)
(***************************************************************************)
C5_VerbIsTag ==
    pcPc = "verb" =>
        /\ \A k \in DOMAIN pcCmds : pcVerbs[k] = pcCmds[k].op
        /\ (pcYield.ended /\ pcPoints = PcPointsOf(pcCmds)) => pcYield.cmds = pcCmds

\* [MoveTo(1), Close] was converted with verb() and read back as [MoveTo(1)].
C5_Witness ==
    /\ pcPc = "verb"
    /\ pcCmds = <<MoveTo(1), Close>>
    /\ pcVerbs = <<"MoveTo", "CurveTo">>
    /\ pcPoints = <<1>>
    /\ pcYield = [cmds |-> <<MoveTo(1)>>, ended |-> TRUE]


\* The vertices from the k-th on are whole subpaths, each a Start, then
\* Middles, then an End; `open` tells whether a subpath is under way at k.
RECURSIVE VtxBracketed(_, _, _)
VtxBracketed(out, k, open) ==
    IF k > Len(out) THEN ~open
    ELSE CASE out[k].kind = "Start" -> ~open /\ VtxBracketed(out, k + 1, TRUE)
           [] out[k].kind = "Middle" -> open /\ VtxBracketed(out, k + 1, TRUE)
           [] out[k].kind = "End" -> open /\ VtxBracketed(out, k + 1, FALSE)


\* The length of a path: the sum of the lengths of its segments, as
\* Walk::remaining adds them up.
RECURSIVE SegmentsLength(_)
SegmentsLength(segs) ==
    IF segs = <<>> THEN 0
    ELSE (IF Head(segs).kind = "Line"
          THEN Vector_length(Vector_sub(Head(segs).b, Head(segs).a)) ELSE 0)
         + SegmentsLength(Tail(segs))

WalkPath == walkB.walk.iter.commands
WalkPathLength == SegmentsLength(SegmentsOf(Segments_new(WalkPath)))

\* walkA has made its two steps, or its first step returned None.
WalkAFinished == walkA.steps = 2 \/ (walkA.steps = 1 /\ walkA.out = NoStep)

C7_SubpathsBracketed ==
    vtxDone =>
        /\ VtxBracketed(vtxOut, 1, FALSE)
        /\ Cardinality({k \in DOMAIN vtxOut : vtxOut[k].kind # "End"})
             = LET segs == SegmentsOf(Segments_new(vtx.segments.commands))
               IN  Cardinality({k \in DOMAIN segs : segs[k].kind = "Line"})

\* The open path M 0,0 L 4,0 has been iterated to the end: its Start is all
\* that was yielded.
C7_Witness ==
    /\ vtxDone
    /\ vtx.segments.commands = <<MoveTo(Point(0, 0)), LineTo(Point(4, 0))>>
    /\ vtxOut = <<VertexStart(Point(0, 0), [x |-> 4, y |-> 0, den |-> 4])>>


(***************************************************************************)
(* C8: the Placement returned by Mask::render and Mask::render_into has    *)
(* left = -offset.x and, for Origin::TopLeft, top = -offset.y, and for     *)
(* Origin::BottomLeft top = floor(-offset.y) + height with the height of   *)
(* the returned placement (offset being the offset the path is rendered    *)
(* with, the values cast to i32).  This holds for every builder            *)
(* configuration: explicit or computed size, with or without inspect().    *)
(***************************************************************************)
C8_PlacementFromOffset ==
    maskOut # <<>> =>
        LET offset == maskOut[2].offset
            p == maskOut[2].placement
        IN  /\ p.left = AsI32(-offset.x)
            /\ mask.origin = "TopLeft" => p.top = AsI32(-offset.y)
            /\ mask.origin = "BottomLeft" =>
                  p.top = AsI32(FloorHalf(-offset.y) + 2 * p.height)

\* Mask::new(path).origin(BottomLeft).render() for a path with the bounds
\* (0, 0)-(4, 3): the placement is 3 pixels high and its top is 0.
C8_Witness ==
    /\ maskCalls = <<"origin">>
    /\ mask.origin = "BottomLeft"
    /\ maskBounds = [min |-> Point(0, 0), max |-> Point(8, 6)]
    /\ maskOut = <<"render", [offset |-> Point(0, 0), placement |-> Placement(0, 0, 4, 3)]>>

(***************************************************************************)
(* C9: dashing an open subpath emits exactly the on-phase intervals.  For  *)
(* Butt caps, an even-length dash array that validate_dashes accepts and   *)
(* offset 0, the outlines the sink has received for each open subpath of   *)
(* line segments, when stroke_into returns, are one outline per interval   *)
(* of the on phase of the periodic pattern that overlaps [0, L] in         *)
(* positive length (L the length of the subpath), in path order, each      *)
(* running along exactly the parts of the segments inside that interval,   *)
(* and no other outline.  An interval of the on phase is a maximal one:    *)
(* "on" dashes around an empty gap are one interval.                       *)
(***************************************************************************)
\* The subpaths the stroker collects from the commands, in order.
RECURSIVE DashSubpaths(_)
DashSubpaths(source) ==
    LET c == StrokerStorage_collect(source, <<>>)
        subpath == [segments |-> c.segments, is_closed |-> c.is_closed]
    IN  IF c.done THEN <<subpath>> ELSE <<subpath>> \o DashSubpaths(c.source)

SegmentLength(segment) == Vector_length(Vector_sub(segment.b, segment.a))

\* Where segment k of a subpath starts, as a distance along the subpath.
SegmentStart(segments, k) == SegmentsLength(SubSeq(segments, 1, k - 1))

\* Whether the pattern is on over the whole of [x, x + 1], told from the
\* pattern alone: x falls, modulo the period, inside an even-numbered dash.
PatternOn(dashes, x) ==
    LET r == x % SeqSum(dashes)
    IN  \E i \in 1..Len(dashes) :
            /\ i % 2 = 1
            /\ SeqSum(SubSeq(dashes, 1, i - 1)) <= r
            /\ r < SeqSum(SubSeq(dashes, 1, i))

\* The maximal intervals <<a, b>> of the on phase inside [0, L], in order.
RECURSIVE OnIntervalsFrom(_, _, _)
OnIntervalsFrom(dashes, L, a) ==
    IF a >= L THEN <<>>
    ELSE IF ~PatternOn(dashes, a) THEN OnIntervalsFrom(dashes, L, a + 1)
    ELSE LET b == CHOOSE y \in (a + 1)..L :
                      /\ \A x \in a..(y - 1) : PatternOn(dashes, x)
                      /\ (y = L \/ ~PatternOn(dashes, y))
         IN  <<(<<a, b>>)>> \o OnIntervalsFrom(dashes, L, b)

\* The parts of the segments an outline runs along: for each slice the id
\* of its segment and the distances along the subpath it starts and ends at.
OutlineSpans(outline, segments) ==
    [j \in DOMAIN outline.slices |->
        LET slice == outline.slices[j]
            k == CHOOSE k \in DOMAIN segments : segments[k] = slice.segment
            len == SegmentLength(slice.segment)
        IN  [id |-> slice.segment.id,
             from |-> SegmentStart(segments, k) + ((slice.start.num * len) \div slice.start.den),
             to |-> SegmentStart(segments, k) + ((slice.end.num * len) \div slice.end.den)]]

\* The parts of the segments inside the interval <<a, b>>.
IntervalSpans(segments, interval) ==
    LET inside == SelectSeq([k \in DOMAIN segments |-> k],
                      LAMBDA k : /\ interval[1] < SegmentStart(segments, k + 1)
                                 /\ SegmentStart(segments, k) < interval[2])
        Max(x, y) == IF x > y THEN x ELSE y
        Min(x, y) == IF x < y THEN x ELSE y
    IN  [j \in DOMAIN inside |->
            [id |-> segments[inside[j]].id,
             from |-> Max(interval[1], SegmentStart(segments, inside[j])),
             to |-> Min(interval[2], SegmentStart(segments, inside[j] + 1))]]

\* The outlines of the sink that run along segments of the subpath.
SinkOutlinesOf(sink, segments) ==
    SelectSeq(sink, LAMBDA o : \E j \in DOMAIN o.slices, k \in DOMAIN segments :
                                    o.slices[j].segment = segments[k])

C9_DashesAreOnIntervals ==
    (/\ stroke.pc = "end"
     /\ stroke.style.start_cap = "Butt" /\ stroke.style.end_cap = "Butt"
     /\ stroke.style.offset = 0
     /\ Len(stroke.style.dashes) % 2 = 0
     /\ stroke.dashes # <<>>) =>
        LET subpaths == DashSubpaths(Segments_new(stroke.commands))
        IN  /\ \A o \in {stroke.sink[j] : j \in DOMAIN stroke.sink} : o.slices # <<>>
            /\ \A n \in DOMAIN subpaths :
                  (~subpaths[n].is_closed /\ subpaths[n].segments # <<>>) =>
                      LET segments == subpaths[n].segments
                          outlines == SinkOutlinesOf(stroke.sink, segments)
                          intervals == OnIntervalsFrom(stroke.style.dashes,
                                                       SegmentsLength(segments), 0)
                      IN  /\ Len(outlines) = Len(intervals)
                          /\ \A j \in DOMAIN outlines :
                                /\ outlines[j].kind = "open"
                                /\ OutlineSpans(outlines[j], segments)
                                       = IntervalSpans(segments, intervals[j])

\* Scenario S5 (in halves): five outlines, each along 10 units of the line,
\* starting at x = 0, 20, 40, 60, 80.
C9_Witness ==
    /\ stroke.pc = "end"
    /\ stroke.commands = S5Commands
    /\ stroke.style = S5Stroke
    /\ Len(stroke.sink) = 5
    /\ \A j \in 1..5 :
          OutlineSpans(stroke.sink[j], DashSubpaths(Segments_new(S5Commands))[1].segments)
              = <<[id |-> 2, from |-> 40 * (j - 1), to |-> 40 * (j - 1) + 20]>>

(***************************************************************************)
(* C10: a dash array d of odd length is treated as d ++ d.  Once both      *)
(* calls have validated their dashes, validate_dashes has accepted both or *)
(* rejected both and has returned the same offset; and when both calls     *)
(* have returned, the dashers have cut the same dashes: the sinks hold the *)
(* same outlines.  A single-element array [x] is the case d = [x].         *)
(***************************************************************************)
C10_OddIsDoubled ==
    (oddA.pc # "start" /\ oddB.pc # "start") =>
        /\ (oddA.dashes = <<>>) <=> (oddB.dashes = <<>>)
        /\ oddA.dash_offset = oddB.dash_offset
        /\ (oddA.pc = "end" /\ oddB.pc = "end") => oddA.sink = oddB.sink

\* [1.5, 0, 1.5] is rejected and stroked whole; written twice it is dashed.
C10_Witness ==
    /\ oddA.style.dashes = <<3, 0, 3>>
    /\ oddA.style.offset = 0
    /\ oddA.pc = "end" /\ oddB.pc = "end"
    /\ oddA.dashes = <<>>
    /\ oddB.dashes = <<3, 0, 3, 3, 0, 3>>
    /\ Len(oddA.sink) = 1
    /\ Len(oddB.sink) > 1

(***************************************************************************)
(* C11: dash wrap on a closed subpath.  For a closed subpath of length     *)
(* L > 0 and accepted dashes that are all positive, the outlines the sink  *)
(* holds when stroke_into returns are the on intervals of the pattern      *)
(* shifted by the offset, and the interval that starts at 0 is emitted     *)
(* exactly once: joined behind the last interval, as one dash across the   *)
(* wrap point, when the pattern is still on past L; on its own, after all  *)
(* the others, when it is off there; and in place of every dash, as one    *)
(* closed un-dashed stroke, when the first dash covers the whole subpath.  *)
(* Spans of zero length and dots are left out of the comparison.           *)
(***************************************************************************)
\* The dash array as the pattern repeats it: an odd one runs through twice.
WrapPattern(dashes) == IF Len(dashes) % 2 = 1 THEN dashes \o dashes ELSE dashes

\* The maximal intervals <<a, b>> inside [0, L] over which the pattern,
\* started offset into itself, is on.
RECURSIVE WrapIntervalsFrom(_, _, _, _)
WrapIntervalsFrom(dashes, offset, L, a) ==
    IF a >= L THEN <<>>
    ELSE IF ~PatternOn(dashes, a + offset) THEN WrapIntervalsFrom(dashes, offset, L, a + 1)
    ELSE LET b == CHOOSE y \in (a + 1)..L :
                      /\ \A x \in a..(y - 1) : PatternOn(dashes, x + offset)
                      /\ (y = L \/ ~PatternOn(dashes, y + offset))
         IN  <<(<<a, b>>)>> \o WrapIntervalsFrom(dashes, offset, L, b)

\* What the sink holds of a subpath, as spans: dots and empty spans dropped.
WrapSinkSpans(sink, segments) ==
    LET outlines == SelectSeq(SinkOutlinesOf(sink, segments), LAMBDA o : o.kind # "dot")
        spans == [j \in DOMAIN outlines |->
                    [kind |-> outlines[j].kind,
                     spans |-> SelectSeq(OutlineSpans(outlines[j], segments),
                                         LAMBDA s : s.from < s.to)]]
    IN  SelectSeq(spans, LAMBDA o : o.spans # <<>>)

\* The dashes of the intervals, one open outline each.
WrapDashes(segments, intervals) ==
    [j \in DOMAIN intervals |->
        [kind |-> "open", spans |-> IntervalSpans(segments, intervals[j])]]

\* What the wrap rule asks for.  whole is what is asked for when the first
\* interval is all of [0, L].
WrapExpected(segments, dashes, offset, whole) ==
    LET L == SegmentsLength(segments)
        I == WrapIntervalsFrom(dashes, offset, L, 0)
        k == Len(I)
        startsOn == k > 0 /\ I[1][1] = 0
        finalOn == k > 0 /\ I[k][2] = L /\ PatternOn(dashes, L + offset)
    IN  IF k = 0 THEN <<>>
        ELSE IF ~startsOn THEN WrapDashes(segments, I)
        ELSE IF k = 1 /\ I[1][2] = L THEN whole
        ELSE IF finalOn
        THEN WrapDashes(segments, SubSeq(I, 2, k - 1))
             \o <<[kind |-> "open",
                   spans |-> IntervalSpans(segments, I[k]) \o IntervalSpans(segments, I[1])]>>
        ELSE WrapDashes(segments, SubSeq(I, 2, k)) \o WrapDashes(segments, <<I[1]>>)

\* The single un-dashed closed stroke.
WrapStroke(segments) ==
    <<[kind |-> "closed",
       spans |-> [j \in DOMAIN segments |->
                     [id |-> segments[j].id,
                      from |-> SegmentStart(segments, j),
                      to |-> SegmentStart(segments, j + 1)]]]>>

\* What the code does when the first dash covers the whole subpath: the
\* closed stroke when the dash runs past the end of the subpath, and an
\* open dash from 0 to L when it ends exactly there, where next_segments
\* reports that the dash was completed.
WrapWholeAmended(segments, dashes, offset) ==
    IF PatternOn(dashes, SegmentsLength(segments) + offset)
    THEN WrapStroke(segments)
    ELSE WrapDashes(segments, <<(<<0, SegmentsLength(segments)>>)>>)

\* stated: a first dash that covers the whole subpath always gives the
\* closed stroke.
WrapHolds(stated) ==
    (/\ stroke.pc = "end"
     /\ stroke.dashes # <<>>
     /\ \A i \in DOMAIN stroke.style.dashes : stroke.style.dashes[i] > 0) =>
        LET subpaths == DashSubpaths(Segments_new(stroke.commands))
        IN  \A n \in DOMAIN subpaths :
                (subpaths[n].is_closed /\ SegmentsLength(subpaths[n].segments) > 0) =>
                    LET segments == subpaths[n].segments
                        dashes == WrapPattern(stroke.style.dashes)
                        offset == stroke.style.offset
                    IN  WrapSinkSpans(stroke.sink, segments)
                            = WrapExpected(segments, dashes, offset,
                                  IF stated THEN WrapStroke(segments)
                                  ELSE WrapWholeAmended(segments, dashes, offset))

\* The statement with "consumes the whole subpath" read as "is at least as
\* long as the subpath".
C11_Stated == WrapHolds(TRUE)

\* C11 with the whole-subpath case narrowed to a first dash that is longer
\* than the subpath; a first dash exactly as long is one open dash.
C11_ClosedWrap == WrapHolds(FALSE)

\* The triangle of length 24 dashed 8 on, 3 off: the dash over [11, 19],
\* then one dash over [22, 24] and on across the start over [0, 8].
C11_Witness ==
    /\ stroke.pc = "end"
    /\ stroke.commands = <<LineTo(Point(8, 0)), LineTo(Point(8, 6)), Close>>
    /\ stroke.style.dashes = <<8, 3>>
    /\ stroke.style.offset = 0
    /\ Len(stroke.sink) = 2
    /\ LET segments == DashSubpaths(Segments_new(stroke.commands))[1].segments
           last == OutlineSpans(stroke.sink[2], segments)
       IN  /\ Len(last) = 2
           /\ last[1].from = 22 /\ last[1].to = 24
           /\ last[2].from = 0 /\ last[2].to = 8

(***************************************************************************)
(* C12: a zero-length subpath stroked with a non-Butt cap produces a dot.  *)
(* When stroke_into returns for the un-dashed path MoveTo p, LineTo p or   *)
(* MoveTo p, Close with a start or end cap other than Butt, the sink holds *)
(* exactly one outline, and it is the outline of the two caps around p.    *)
(***************************************************************************)
\* The outline stroke_segments builds from the end cap and the start cap.
IsDotAt(outline, p) ==
    /\ outline.kind = "point"
    /\ Len(outline.slices) = 1
    /\ outline.slices[1].segment.a = p
    /\ outline.slices[1].segment.b = p

ZeroLengthPaths(p) == {<<MoveTo(p), LineTo(p)>>, <<MoveTo(p), Close>>}

C12_ZeroLengthDot ==
    \A p \in DashPoints :
        (/\ stroke.pc = "end"
         /\ stroke.commands \in ZeroLengthPaths(p)
         /\ stroke.style.dashes = <<>>
         /\ (stroke.style.start_cap # "Butt" \/ stroke.style.end_cap # "Butt")) =>
            /\ Len(stroke.sink) = 1
            /\ IsDotAt(stroke.sink[1], p)

\* MoveTo p, LineTo p with Round and Square caps: Segments drops the LineTo
\* that goes nowhere, the stroker collects no segment and emits nothing.
C12_Witness ==
    /\ stroke.pc = "end"
    /\ stroke.commands = <<MoveTo(Point(8, 6)), LineTo(Point(8, 6))>>
    /\ stroke.style = Stroke(<<>>, 0, "Round", "Square")
    /\ stroke.sink = <<>>

(***************************************************************************)
(* C13: clipping at the cell layer.  In every state of a rasterize(w, h)   *)
(* call and after it, whatever points the builder calls were given, the    *)
(* storage has h rows, every stored cell is linked into one of them (so    *)
(* 0 <= y < h) and has -1 <= x < w, and the cell the rasterizer would pass *)
(* to storage.set next (its x and y while invalid is false) has a row      *)
(* inside [0, h) and a column inside [-1, w).                              *)
(***************************************************************************)
\* The cells of the list that starts at index, following next, at most
\* fuel cells far.
RECURSIVE RowList(_, _, _)
RowList(cells, index, fuel) ==
    IF index = -1 \/ fuel = 0 THEN <<>>
    ELSE <<index>> \o RowList(cells, cells[index + 1].next, fuel - 1)

RowOf(storage, i) == RowList(storage.cells, storage.indices[i], Len(storage.cells) + 1)

C13_CellsClipped ==
    rasCalls > 0 =>
        LET storage == ras.storage
            w == rasArgs.w
            h == rasArgs.h
        IN  /\ Len(storage.indices) = h
            /\ \A k \in DOMAIN storage.cells :
                  /\ storage.cells[k].x \in -1..(w - 1)
                  /\ \E i \in 1..h, j \in 1..Len(storage.cells) :
                        /\ j <= Len(RowOf(storage, i))
                        /\ RowOf(storage, i)[j] = k - 1
            /\ ~ras.invalid => (ras.y \in 0..(h - 1) /\ ras.x \in -1..(w - 1))

\* A path through points left of, right of and above a 2 x 2 target has
\* stored a cell in the sentinel column.
C13_Witness ==
    /\ rasPc = "apply"
    /\ rasArgs.w = 2 /\ rasArgs.h = 2
    /\ rasCmds = <<MoveTo(FixedPoint(-600, 300)), LineTo(FixedPoint(900, 96)),
                   LineTo(FixedPoint(100, -300))>>
    /\ \E k \in DOMAIN ras.storage.cells : ras.storage.cells[k].x = -1
    /\ \E k \in DOMAIN ras.storage.cells : ras.storage.cells[k].x = 1

(***************************************************************************)
(* C14: coverage to alpha for NonZero.  For every accumulated value c the  *)
(* byte coverage(NonZero, c) is c shifted right by 9 (arithmetic), made    *)
(* non-negative, and clamped to 255, and the value handed to the final     *)
(* cast is already inside 0..255.                                          *)
(***************************************************************************)
\* c >> 9
CovShifted(c) == c \div (2 ^ (PIXEL_BITS * 2 + 1 - 8))

\* The value coverage() holds for NonZero when it reaches `coverage as u8`:
\* `!coverage` is the bitwise complement, -coverage - 1.
NonZeroBeforeCast(c) ==
    LET a == IF CovShifted(c) < 0 THEN (-CovShifted(c)) - 1 ELSE CovShifted(c)
    IN  IF a >= 256 THEN 255 ELSE a

\* As stated: made non-negative by negation, min(255, |c >> 9|).
C14_Stated ==
    covOut # <<>> =>
        covOut["NonZero"] = (IF Abs(CovShifted(covIn)) < 255 THEN Abs(CovShifted(covIn)) ELSE 255)

\* C14 with the negation read as the code's bitwise complement: for a
\* negative c >> 9 the byte is min(255, |c >> 9| - 1); the value before the
\* cast is inside 0..255.
C14_NonZeroAlpha ==
    covOut # <<>> =>
        /\ NonZeroBeforeCast(covIn) \in 0..255
        /\ covOut["NonZero"] = NonZeroBeforeCast(covIn)
        /\ covOut["NonZero"] =
              (IF CovShifted(covIn) >= 0
               THEN (IF CovShifted(covIn) < 255 THEN CovShifted(covIn) ELSE 255)
               ELSE (IF Abs(CovShifted(covIn)) - 1 < 255
                     THEN Abs(CovShifted(covIn)) - 1 ELSE 255))

\* c = -512: c >> 9 is -1 and the byte is 0, not 1.
C14_Witness ==
    /\ covOut # <<>>
    /\ covIn = -512
    /\ CovShifted(covIn) = -1
    /\ covOut["NonZero"] = 0

(***************************************************************************)
(* C15: cell storage keeps sorted, merged rows.  After reset and any       *)
(* sequence of set calls, in the HeapStorage and in the AdaptiveStorage,   *)
(* the list of every row ends with -1 without visiting a cell twice, its x *)
(* values are strictly ascending, its cells are exactly the (x, y) set     *)
(* since the reset, one cell each, and each cell's area and cover are the  *)
(* wrapping 32-bit sums of the contributions made at its (x, y).           *)
(***************************************************************************)
\* i32::wrapping_add over the contributions made at one cell.
RECURSIVE WrappingSum(_, _)
WrappingSum(amounts, k) ==
    IF k = 0 THEN [area |-> 0, cover |-> 0]
    ELSE LET before == WrappingSum(amounts, k - 1)
         IN  [area |-> WrappingAdd(before.area, amounts[k].area),
              cover |-> WrappingAdd(before.cover, amounts[k].cover)]

RowsSortedAndMerged(cells, indices, count, sums) ==
    LET row(i) == RowList(cells, indices[i], count + 1)
    IN  /\ \A i \in DOMAIN indices :
              LET r == row(i)
              IN  /\ Len(r) <= count
                  /\ \A j \in 1..(Len(r) - 1) : cells[r[j] + 1].x < cells[r[j + 1] + 1].x
                  /\ r = <<>> \/ cells[r[Len(r)] + 1].next = -1
                  /\ \A j \in DOMAIN r :
                        LET cell == cells[r[j] + 1]
                            key == <<cell.x, i - 1>>
                        IN  /\ key \in DOMAIN sums
                            /\ cell.area = WrappingSum(sums[key], Len(sums[key])).area
                            /\ cell.cover = WrappingSum(sums[key], Len(sums[key])).cover
        /\ \A key \in DOMAIN sums :
              \E j \in DOMAIN row(key[2] + 1) : cells[row(key[2] + 1)[j] + 1].x = key[1]

C15_RowsSortedAndMerged ==
    store.resets > 0 =>
        /\ RowsSortedAndMerged(store.heap.cells, store.heap.indices,
                               Len(store.heap.cells), store.sums)
        /\ RowsSortedAndMerged(AdaptiveStorage_cells(store.adaptive),
                               AdaptiveStorage_indices(store.adaptive),
                               store.adaptive.cell_count, store.sums)

\* Two contributions of (i32::MAX, i32::MIN) at one cell behind another
\* cell of its row: the area has wrapped to -2, the cover to 0.
C15_Witness ==
    /\ store.sets = 2
    /\ store.filled
    /\ <<2000, 0>> \in DOMAIN store.sums
    /\ Len(store.sums[<<2000, 0>>]) = 2
    /\ \E k \in DOMAIN store.heap.cells :
          /\ store.heap.cells[k].x = 2000
          /\ store.heap.cells[k].area = -2
          /\ store.heap.cells[k].cover = 0

(***************************************************************************)
(* C16: AdaptiveStorage has the semantics of HeapStorage.  After the same  *)
(* reset and set calls, indices() of the two are equal and cells() hold    *)
(* the same cells at the same positions, below and above MAX_BAND rows,    *)
(* before, at and after the move of the cells to the heap at MAX_CELLS,    *)
(* and after a reset that follows it.                                      *)
(***************************************************************************)
C16_StoragesAgree ==
    store.resets > 0 =>
        LET n == store.adaptive.cell_count
        IN  /\ AdaptiveStorage_indices(store.adaptive) = store.heap.indices
            /\ n = Len(store.heap.cells)
            /\ Len(AdaptiveStorage_cells(store.adaptive)) >= n
            /\ SubSeq(AdaptiveStorage_cells(store.adaptive), 1, n) = store.heap.cells

\* A set call after a reset that followed a spill, on more than MAX_BAND
\* rows: the cell is inline again.
C16_Witness ==
    /\ store.spilled
    /\ store.resets = 2
    /\ store.height = MAX_BAND + 1
    /\ store.adaptive.cell_count = 1
    /\ store.adaptive.heap_cells = <<>>
    /\ AdaptiveStorage_cells(store.adaptive)[1].x = 2000

(***************************************************************************)
(* C17: every subpath is rasterized as a closed contour.  The cells stored *)
(* for a sequence of builder calls are the cells stored for the sequence   *)
(* with a close written out before every move_to that finds the subpath    *)
(* open, and at the end of the input if it is open then, by a rasterizer   *)
(* that never closes anything by itself: the implicit line is drawn where  *)
(* a close would be, once.  After a close, a move_to or the end of the     *)
(* call the current position (px, py) is the subpath's start.              *)
(***************************************************************************)
\* The builder calls with every implicit close written out; open is the
\* negation of the closed flag, at_end whether the input ends here.
RECURSIVE ExplicitlyClosed(_, _, _)
ExplicitlyClosed(cmds, open, at_end) ==
    IF cmds = <<>>
    THEN IF open /\ at_end THEN <<Close>> ELSE <<>>
    ELSE CASE Head(cmds).op = "MoveTo" ->
                (IF open THEN <<Close>> ELSE <<>>) \o <<Head(cmds)>>
                    \o ExplicitlyClosed(Tail(cmds), TRUE, at_end)
           [] Head(cmds).op = "LineTo" ->
                <<Head(cmds)>> \o ExplicitlyClosed(Tail(cmds), TRUE, at_end)
           [] Head(cmds).op = "Close" ->
                <<Head(cmds)>> \o ExplicitlyClosed(Tail(cmds), FALSE, at_end)

\* The private move_to and line_to alone: a builder call that draws what
\* it is told and nothing else.
PlainDeliver(r, cmd) ==
    CASE cmd.op = "MoveTo" -> [ras_move_to(r, cmd.to) EXCEPT !.start = cmd.to]
      [] cmd.op = "LineTo" -> ras_line_to(r, cmd.to)
      [] cmd.op = "Close" -> ras_line_to(r, r.start)

RECURSIVE PlainDeliverAll(_, _)
PlainDeliverAll(r, cmds) ==
    IF cmds = <<>> THEN r ELSE PlainDeliverAll(PlainDeliver(r, Head(cmds)), Tail(cmds))

\* The storage after the calls, and after the last cell when the input
\* has ended.
PlainStorage(args, cmds, at_end) ==
    LET r0 == rasterize_begin(Rasterizer_new(HeapStorageNew), args.w, args.h)
        r1 == PlainDeliverAll(r0, ExplicitlyClosed(cmds, FALSE, at_end))
    IN  IF at_end /\ ~r1.invalid
        THEN HeapStorage_set(r1.storage, r1.x, r1.y, r1.area, r1.cover)
        ELSE r1.storage

C17_ClosedContours ==
    rasCalls > 0 =>
        /\ ras.storage = PlainStorage(rasArgs, rasCmds, rasPc = "idle")
        /\ (rasPc = "idle" \/ (rasCmds # <<>> /\ rasCmds[Len(rasCmds)].op \in {"MoveTo", "Close"}))
              => (ras.px = ras.start.x /\ ras.py = ras.start.y)

\* Two open subpaths, closed by the move_to and by the end of the input.
C17_Witness ==
    /\ rasPc = "idle"
    /\ rasCmds = <<LineTo(FixedPoint(480, 96)), MoveTo(FixedPoint(200, 500)),
                   LineTo(FixedPoint(32, 48))>>
    /\ Len(ExplicitlyClosed(rasCmds, FALSE, TRUE)) = 5
    /\ ras.storage.cells # <<>>
    /\ ras.px = 200 /\ ras.py = 500

(***************************************************************************)
(* C18: the Segments iterator on Close.  For every Close command of a path *)
(* that an iterator (splitting or not) has dealt with, what it yielded for *)
(* the command is a Line from the current point to the start of the        *)
(* subpath and then End(true), or End(true) alone when the current point   *)
(* is within MERGE_EPSILON of the start.                                   *)
(***************************************************************************)
\* The current point and the start of the subpath after the first k
\* commands, told from the commands.
RECURSIVE PenAfter(_, _)
PenAfter(cmds, k) ==
    IF k = 0 THEN [cur |-> Point(0, 0), start |-> Point(0, 0)]
    ELSE LET before == PenAfter(cmds, k - 1)
         IN  CASE cmds[k].op = "MoveTo" -> [cur |-> cmds[k].to, start |-> cmds[k].to]
               [] cmds[k].op = "Close" -> [cur |-> before.start, start |-> before.start]
               [] OTHER -> [cur |-> cmds[k].to, start |-> before.start]

\* What an iterator yielded for command k: kinds and end points.
YieldedFor(out, k) ==
    LET es == SelectSeq(out, LAMBDA e : e.at = k)
    IN  [j \in DOMAIN es |->
            IF es[j].seg.kind = "End" THEN es[j].seg
            ELSE [kind |-> es[j].seg.kind, a |-> es[j].seg.a, b |-> es[j].seg.b]]

ClosingLine(pen) == [kind |-> "Line", a |-> pen.cur, b |-> pen.start]

\* The segments yielded for the commands since the iterator last set its
\* count to zero: at a MoveTo, or at a Close that yielded no Line.
SegmentsSince(cmds, out, k) ==
    LET zeroed == {j \in 1..(k - 1) :
                      \/ cmds[j].op = "MoveTo"
                      \/ cmds[j].op = "Close" /\ YieldedFor(out, j) = <<SegEnd(TRUE)>>}
        last == IF zeroed = {} THEN 0 ELSE CHOOSE j \in zeroed : \A i \in zeroed : i <= j
    IN  Cardinality({i \in DOMAIN out :
                        /\ out[i].at > last /\ out[i].at < k
                        /\ out[i].seg.kind # "End"
                        /\ cmds[out[i].at].op # "Close"})

\* Whether the iterator has finished with command k.
DealtWith(it, k) == it.at > k \/ (it.at = k /\ ~it.close)

\* stated: the Line is left out whenever the current point is at the start.
\* Otherwise it is left out only if, besides, a segment has been yielded
\* since the count was last zero.
CloseYields(it, out, stated) ==
    \A k \in 1..Len(it.commands) :
        (it.commands[k].op = "Close" /\ DealtWith(it, k) /\ Len(it.commands) <= MaxSegCmds) =>
            LET pen == PenAfter(it.commands, k - 1)
                coincident == nearly_eq_by(pen.cur, pen.start)
                omitted == IF stated THEN coincident
                           ELSE coincident /\ SegmentsSince(it.commands, out, k) > 0
            IN  YieldedFor(out, k) = IF omitted THEN <<SegEnd(TRUE)>>
                                     ELSE <<ClosingLine(pen), SegEnd(TRUE)>>

SegIds(out) == SelectSeq(out, LAMBDA e : e.seg.kind # "End")

C19_SegmentIds ==
    LET ids == SegIds(iters.outSplit)
    IN  /\ \A i \in DOMAIN ids :
              /\ ids[i].seg.id \in 0..254
              /\ ids[i].seg.id # NO_ID
              /\ ids[i].seg.id = ids[i].at % 255
        /\ \A i \in 1..(Len(ids) - 1) :
              /\ ids[i].at = ids[i + 1].at => ids[i].seg.id = ids[i + 1].seg.id
              /\ ids[i + 1].at = ids[i].at + 1 => ids[i].seg.id # ids[i + 1].seg.id

\* On the long path command 254 has id 254 and command 255, a curve in
\* three fragments, has id 0 on all three.
C19_Witness ==
    /\ iters.split.commands = LongPath
    /\ iters.doneSplit
    /\ \E i \in DOMAIN iters.outSplit :
          /\ iters.outSplit[i].at = 254 /\ iters.outSplit[i].seg.id = 254
          /\ \A j \in 1..3 : /\ iters.outSplit[i + j].at = 255
                             /\ iters.outSplit[i + j].seg.kind = "Curve"
                             /\ iters.outSplit[i + j].seg.id = 0

(***************************************************************************)
(* C20: the join is chosen by segment id on both sides of the stroke.      *)
(* Every join the stroker sends to the sink between two consecutive        *)
(* segments is what add_split_join makes of the junction (Round, whatever  *)
(* the configured join) when the two segments have the same id, and what   *)
(* add_join makes of it (the configured join) when their ids differ; in    *)
(* the forward and in the reverse pass, of stroke_segments and of          *)
(* dash_segments.                                                          *)
(***************************************************************************)
JoinById(j, e) ==
    e.shape = IF j.segments[e.from].id = j.segments[e.to].id
              THEN add_split_join(e.geom)
              ELSE add_join(j.join, e.geom)

C20_JoinById ==
    \A i \in DOMAIN joiner.sink : JoinById(joiner, joiner.sink[i])

\* The forward pass of stroke_segments has joined two fragments of one
\* curve, whose offsets turn clockwise and do not meet, with a Bevel.
C20_Witness ==
    /\ joiner.mode = "stroke"
    /\ joiner.join = "Bevel"
    /\ \E i \in DOMAIN joiner.sink :
          LET e == joiner.sink[i]
          IN  /\ e.pass = "forward"
              /\ e.to = e.from + 1
              /\ joiner.segments[e.from].kind = "Curve"
              /\ joiner.segments[e.from].id = joiner.segments[e.to].id
              /\ ~e.geom.near
              /\ is_clockwise(e.geom)
              /\ e.shape = "Bevel"

\* Where the rule holds: in both passes of dash_segments, and in the
\* reverse pass of stroke_segments after its first segment.
C20_Elsewhere ==
    \A i \in DOMAIN joiner.sink :
        LET e == joiner.sink[i]
        IN  (e.mode = "dash" \/ (e.pass = "reverse" /\ e.to = e.from + 1))
                => JoinById(joiner, e)

(***************************************************************************)
(* C21: root de-duplication in the max-curvature solver.  With three real  *)
(* roots, solve returns every distinct value of the three clamped          *)
(* candidates exactly once, in ascending order, and count is the number of *)
(* distinct values; (a, a, b) with a < b gives both a and b.               *)
(***************************************************************************)
DistinctAscending(cands) ==
    LET vals == {cands[i] : i \in 1..3}
    IN  [k \in 1..Cardinality(vals) |->
            CHOOSE v \in vals : Cardinality({u \in vals : u < v}) = k - 1]

C21_DistinctRoots ==
    solver.solved =>
        LET want == DistinctAscending(solver.cands)
        IN  /\ solver.roots.count = Len(want)
            /\ SubSeq(solver.roots.ts, 1, solver.roots.count) = want

\* solve has run on two equal candidates below a third, and has returned
\* the equal ones only
C21_Witness ==
    /\ solver.solved
    /\ LET s == Sort3(solver.cands)
       IN  s[1] = s[2] /\ s[2] < s[3]
    /\ solver.roots.count = 1

\* The cases solve gets right: three distinct candidates, three equal ones,
\* and one below two equal ones.
C21_OtherCases ==
    solver.solved =>
        LET s == Sort3(solver.cands)
            want == DistinctAscending(solver.cands)
        IN  ~(s[1] = s[2] /\ s[2] < s[3]) =>
                /\ solver.roots.count = Len(want)
                /\ SubSeq(solver.roots.ts, 1, solver.roots.count) = want

(***************************************************************************)
(* C22: the buffer of the curve splitter is bounded.  split_curve never    *)
(* writes self.splits past its 16 slots and leaves at most 16 fragments;   *)
(* in every state of the iterator 0 <= split_index <= split_count <= 16;   *)
(* and once a later command has been pulled, the segments yielded for a    *)
(* curve are its fragments that have a length, each once and in order.     *)
(***************************************************************************)
\* The end points of the fragments of one piece
PieceEnds(p) ==
    IF ~p.needs[1] THEN <<p.to>>
    ELSE (IF p.needs[2] THEN <<p.at[1], p.at[2]>> ELSE <<p.at[2]>>)
         \o (IF p.needs[3] THEN <<p.at[3], p.to>> ELSE <<p.to>>)

RECURSIVE CurveEnds(_)
CurveEnds(pieces) ==
    IF pieces = <<>> THEN <<>> ELSE PieceEnds(Head(pieces)) \o CurveEnds(Tail(pieces))

\* The fragments of a curve that have a length, as the segments with this id
FragmentsOf(from, cmd, id) ==
    LET ends == CurveEnds(cmd.pieces)
        all == [k \in 1..Len(ends) |->
                   SegCurve(id, IF k = 1 THEN from ELSE ends[k - 1], ends[k])]
    IN  SelectSeq(all, LAMBDA f : f.a # f.b)

\* The segments yielded while command number k was the last one pulled
YieldedAt(out, k) ==
    LET of == SelectSeq(out, LAMBDA e : e.at = k /\ e.seg.kind # "End")
    IN  [i \in 1..Len(of) |-> of[i].seg]

IsPrefix(a, b) == Len(a) <= Len(b) /\ SubSeq(b, 1, Len(a)) = a

C22_SplitsBounded ==
    LET it == iters.split
    IN  /\ ~it.panic
        /\ 0 <= it.split_index
        /\ it.split_index <= it.split_count
        /\ it.split_count <= SPLITS_LEN
        /\ \A k \in 1..it.at :
              LET cmd == it.commands[k]
              IN  (cmd.op = "CurveTo" /\ ~cmd.flat) =>
                      LET want == FragmentsOf(SegP0, cmd, k % 255)
                          got == YieldedAt(iters.outSplit, k)
                      IN  /\ Len(want) <= SPLITS_LEN
                          /\ IsPrefix(got, want)
                          /\ (k < it.at \/ iters.doneSplit) => got = want

\* A curve of sixteen fragments has been yielded whole and the command
\* after it has been pulled.
C22_Witness ==
    /\ iters.split.at = 3
    /\ iters.split.split_count = SPLITS_LEN
    /\ iters.split.split_index = SPLITS_LEN
    /\ Len(YieldedAt(iters.outSplit, 2)) = SPLITS_LEN

(***************************************************************************)
(* C23: the subdivision of quad_to and curve_to.                           *)
(***************************************************************************)
\* The index of the loop leaves room for the curve it points at, and no
\* split has written past the end of the array.
SubdivInArray(w) ==
    /\ ~w.out_of_bounds
    /\ w.pc = "loop" =>
          /\ w.a >= 0
          /\ w.a + (IF w.kind = "quad" THEN 2 ELSE 3)
                <= (IF w.kind = "quad" THEN QUAD_ARC_LEN ELSE CUBIC_ARC_LEN) - 1

\* A call that has returned left the current point at the curve's end.
SubdivEndsAtEnd(w) ==
    w.pc = "done" => w.r.px = w.to.x /\ w.r.py = w.to.y

\* curve_to gives up only with fewer than 7 slots left, by a line_to(to)
\* after which it has returned.
SubdivDegrades(w) ==
    w.degraded =>
       /\ w.kind = "cubic"
       /\ w.pc = "done"
       /\ CUBIC_ARC_LEN - w.a < 7
       /\ w.lines >= 1
       /\ w.last = w.to

\* quad_to's loop runs `draw` more rounds, at most 2^13 in all.
QuadCountsDown(w) ==
    (w.kind = "quad" /\ w.pc = "loop") =>
        /\ w.draw >= 1
        /\ w.lines + w.draw <= 2 ^ 13

\* C23 as stated: for any fixed-point control points quad_to and curve_to
\* return (a call neither panics nor comes back to a state of its loop it
\* has been in), never index their arrays out of bounds and leave (px, py)
\* at the end point, curve_to degrading to one line_to(end) when fewer than
\* 7 slots are free.
C23_Stated ==
    sys = "curve" =>
        /\ subdiv.pc \notin {"panic", "again"}
        /\ QuadCountsDown(subdiv)
        /\ SubdivInArray(subdiv)
        /\ SubdivEndsAtEnd(subdiv)
        /\ SubdivDegrades(subdiv)

\* curve_to in a build without overflow checks is back at a = 0 with the
\* bottom curve it had there before: the rounds between repeat for ever.
C23_Witness ==
    /\ sys = "curve"
    /\ subdiv.kind = "cubic"
    /\ ~subdiv.checked
    /\ subdiv.pc = "again"
    /\ subdiv.a = 0
    /\ bottom_curve(subdiv) = subdiv.mark

\* What holds of every call: the arrays are never indexed out of bounds, a
\* call that returns leaves (px, py) at the end point, curve_to degrades
\* only with fewer than 7 slots free, quad_to counts down, a panic is an
\* overflow caught by a build that checks it, and only curve_to with
\* wrapping sums repeats itself.
C23_Elsewhere ==
    sys = "curve" =>
        /\ subdiv.panic => subdiv.checked
        /\ subdiv.degraded => ~subdiv.checked
        /\ subdiv.pc = "again" => subdiv.kind = "cubic" /\ ~subdiv.checked
        /\ QuadCountsDown(subdiv)
        /\ SubdivInArray(subdiv)
        /\ SubdivEndsAtEnd(subdiv)
        /\ SubdivDegrades(subdiv)

\* curve_to has run out of slots after 41 splits in a row and has returned
\* through line_to(to).
C23_Degraded ==
    ~(/\ sys = "curve"
      /\ subdiv.degraded
      /\ subdiv.pc = "done"
      /\ subdiv.splits = 41
      /\ subdiv.r.px = subdiv.to.x)

\* quad_to has drawn the 8192 lines of its deepest subdivision and returned.
C23_DeepestQuad ==
    ~(sys = "curve" /\ subdiv.kind = "quad" /\ subdiv.pc = "done" /\ subdiv.lines = 8192)

(***************************************************************************)
(* C24: the contours the stroker sends to the sink.                        *)
(***************************************************************************)
\* one move_to, first; one close, last; line_to and curve_to between
Delimited(calls) ==
    /\ Len(calls) >= 2
    /\ calls[1].op = "move_to"
    /\ calls[Len(calls)].op = "close"
    /\ \A i \in 2..(Len(calls) - 1) : calls[i].op \in {"line_to", "curve_to"}

\* the place of a part of the contour in the order of a contour
PartRank(by) ==
    CASE by = "start" -> 0
      [] by = "outer" -> 1
      [] by = "end_cap" -> 2
      [] by = "inner" -> 3
      [] by = "start_cap" -> 4
      [] by = "close" -> 5

\* the parts other than the joins come in the order of a contour
PartsInOrder(calls) ==
    \A i, j \in 1..Len(calls) :
        (i < j /\ calls[i].by # "join" /\ calls[j].by # "join") =>
            PartRank(calls[i].by) <= PartRank(calls[j].by)

Parts(calls) == {calls[i].by : i \in 1..Len(calls)}

\* an open contour has both caps, a closed one has none
CapsAsOpen(c) ==
    IF c.mode = "stroke" /\ c.is_closed
          /\ ~(Len(c.segments) = 1 /\ c.segments[1].zero
               /\ (c.start_cap # "Butt" \/ c.end_cap # "Butt"))
    THEN Parts(c.calls) \cap {"end_cap", "start_cap"} = {}
    ELSE {"end_cap", "start_cap"} \subseteq Parts(c.calls)

\* the contour of a single point that stroke_segments draws
IsStrokeDot(c) ==
    /\ c.mode = "stroke"
    /\ Len(c.segments) = 1
    /\ c.segments[1].zero
    /\ (c.start_cap # "Butt" \/ c.end_cap # "Butt")

\* C24 as stated: every contour the stroker sends to the sink, be it of an
\* open or closed subpath, a dash or a single point, is one move_to, then
\* line_to and curve_to only, then one close, with the end cap between the
\* outer and the inner pass and the start cap behind the inner pass on an
\* open contour, and no caps on a closed one.
C24_Stated ==
    (sys = "contour" /\ contour.done /\ contour.calls # <<>>) =>
        /\ Delimited(contour.calls)
        /\ PartsInOrder(contour.calls)
        /\ CapsAsOpen(contour)

\* stroke_segments has drawn a single point with its two caps and has
\* returned without a close.
C24_Witness ==
    /\ sys = "contour"
    /\ contour.done
    /\ IsStrokeDot(contour)
    /\ contour.calls[1].op = "move_to"
    /\ "start_cap" \in Parts(contour.calls)
    /\ \A i \in 1..Len(contour.calls) : contour.calls[i].op # "close"

\* Every other contour is as stated, and the single point of
\* stroke_segments is but for its close.
C24_Elsewhere ==
    (sys = "contour" /\ contour.done /\ contour.calls # <<>>) =>
        /\ Delimited(IF IsStrokeDot(contour)
                     THEN Append(contour.calls, Call("close", "close"))
                     ELSE contour.calls)
        /\ PartsInOrder(contour.calls)
        /\ CapsAsOpen(contour)

\* A closed subpath of three segments has been stroked.
C24_ClosedDrawn ==
    ~(sys = "contour" /\ contour.done /\ contour.mode = "stroke" /\ contour.is_closed
      /\ Len(contour.segments) = 3 /\ Len(contour.calls) >= 9)

\* A dash over two segments, the first of them passed over, has been drawn.
C24_DashDrawn ==
    ~(sys = "contour" /\ contour.done /\ contour.mode = "dash" /\ contour.skip
      /\ Len(contour.calls) >= 5)

(***************************************************************************)
(* C25: the cover of a row.                                                *)
(***************************************************************************)
RECURSIVE CoverSum(_, _)
CoverSum(cells, row) ==
    IF row = <<>> THEN 0
    ELSE cells[Head(row) + 1].cover + CoverSum(cells, Tail(row))

\* the sum of the cover of the cells of row y, the one in column -1 included
RowCover(storage, y) == CoverSum(storage.cells, RowOf(storage, y + 1))

\* every point of the calls lies left of the right edge
AllLeftOfEdge(cmds, w) ==
    \A k \in DOMAIN cmds : cmds[k].op = "Close" \/ trunc(cmds[k].to.x) < w

\* the calls begin with a move_to
StartsWithMoveTo(cmds) == cmds # <<>> /\ cmds[1].op = "MoveTo"

\* rasterize has returned from a call whose points lie left of the right edge
RowsFinished ==
    /\ sys \in {"raster", "clip"}
    /\ rasPc = "idle"
    /\ rasCalls > 0
    /\ AllLeftOfEdge(rasCmds, rasArgs.w)

RowsConserved ==
    \A y \in 0..(rasArgs.h - 1) : RowCover(ras.storage, y) = 0

\* C25 as stated: whatever calls the callback makes, a line_to with no
\* move_to before it included, with all points left of the right edge, the
\* cover of the cells of every row of the target adds up to zero when
\* rasterize has finished, so that nothing is painted behind the last cell.
C25_Stated == RowsFinished => RowsConserved

\* rasterize has finished a call that began with a line_to into a row
\* below the first; the cover of the first row does not add up to zero and
\* the pixel right of the line, which the path does not cover, is painted.
C25_Witness ==
    /\ RowsFinished
    /\ rasCmds # <<>>
    /\ rasCmds[1].op = "LineTo"
    /\ trunc(rasCmds[1].to.y) >= 1
    /\ RowCover(ras.storage, 0) # 0
    /\ rasArgs.w = 2 /\ ~rasArgs.y_up
    /\ buffer[1] = 255

\* For calls that begin with a move_to, or are none at all, the cover of
\* every row adds up to zero.
C25_Elsewhere ==
    (RowsFinished /\ (rasCmds = <<>> \/ StartsWithMoveTo(rasCmds))) => RowsConserved

\* A call with points above, below and left of the target has finished.
C25_AllSides ==
    ~(/\ RowsFinished
      /\ StartsWithMoveTo(rasCmds)
      /\ \E i, j, k \in DOMAIN rasCmds :
            /\ rasCmds[i].op # "Close" /\ trunc(rasCmds[i].to.y) < 0
            /\ rasCmds[j].op # "Close" /\ trunc(rasCmds[j].to.y) >= rasArgs.h
            /\ rasCmds[k].op # "Close" /\ trunc(rasCmds[k].to.x) < 0)

(***************************************************************************)
(* C26, C27: the cell walk of line_to.                                     *)
(***************************************************************************)
\* both end points have pixel coordinates in [0, 32767]
LineInRange(w) ==
    /\ w.from.x \in 0..MaxFixed /\ w.from.y \in 0..MaxFixed
    /\ w.to.x \in 0..MaxFixed /\ w.to.y \in 0..MaxFixed

\* both end points have pixel coordinates in [0, 16383]
LineInHalfRange(w) ==
    /\ w.from.x \in 0..HalfFixed /\ w.from.y \in 0..HalfFixed
    /\ w.to.x \in 0..HalfFixed /\ w.to.y \in 0..HalfFixed

\* both end points above the band or both below it
LineOutsideBand(w) ==
    \/ trunc(w.from.y) >= w.r.ymax /\ trunc(w.to.y) >= w.r.ymax
    \/ trunc(w.from.y) < w.r.ymin /\ trunc(w.to.y) < w.r.ymin

\* the call runs one of the two loops: the end points are in different
\* cells and in different rows of the fixed-point grid
LineLoops(w) ==
    /\ w.pc # "call"
    /\ ~LineOutsideBand(w)
    /\ (trunc(w.from.x) # trunc(w.to.x) \/ trunc(w.from.y) # trunc(w.to.y))
    /\ w.from.y # w.to.y

\* the walk so far: no more rounds than cells between the end points, each
\* round into a cell next to the one before, and out of the loop only in
\* the cell of `to` after as many rounds as there are cells between
WalkIsExact(w) ==
    /\ w.pc \notin {"astray", "panic"}
    /\ w.steps <= w.cells
    /\ w.steps > 0 =>
          Abs(w.ex1 - w.before.x) + Abs(w.ey1 - w.before.y) = 1
    /\ w.pc \in {"finish", "done"} =>
          /\ w.ex1 = w.ex2 /\ w.ey1 = w.ey2
          /\ w.ex2 = trunc(w.to.x) /\ w.ey2 = trunc(w.to.y)
          /\ w.steps = w.cells
          /\ w.cells = Abs(trunc(w.to.x) - trunc(w.from.x))
                          + Abs(trunc(w.to.y) - trunc(w.from.y))

\* C26 as stated: for end points with pixel coordinates in [0, 32767], not
\* both above or both below the band, the loop of line_to ends in the cell
\* of `to`, every round moves to one of the four cells next to the current
\* one, and there are exactly |ex2 - ex1| + |ey2 - ey1| rounds.
C26_Stated ==
    (sys = "cells" /\ LineInRange(cellwalk) /\ LineLoops(cellwalk)) =>
        WalkIsExact(cellwalk)

\* Built without overflow checks, the walk of a line across the range has
\* left the cells between its end points: it cannot be in the cell of `to`
\* after as many rounds as there are cells between them.
C26_Witness ==
    /\ sys = "cells"
    /\ LineInRange(cellwalk) /\ LineLoops(cellwalk)
    /\ ~cellwalk.checked
    /\ cellwalk.pc = "astray"
    /\ ~between_ends(cellwalk, cellwalk.ex1, cellwalk.ey1)
    /\ (cellwalk.ex1 # cellwalk.ex2 \/ cellwalk.ey1 # cellwalk.ey2)

\* As long as no result has left the i32 range the walk is as stated.
C26_Elsewhere ==
    (sys = "cells" /\ LineInRange(cellwalk) /\ LineLoops(cellwalk)
        /\ ~cellwalk.overflow) =>
        WalkIsExact(cellwalk)

\* The walk along the diagonal of the whole range has ended.
C26_FarDone ==
    ~(sys = "cells" /\ cellwalk.pc = "done" /\ cellwalk.steps = 2 * 32767)

\* A vertical walk of two rounds has ended.
C26_VerticalDone ==
    ~(sys = "cells" /\ cellwalk.pc = "done" /\ cellwalk.steps = 2
      /\ cellwalk.from.x = cellwalk.to.x)

\* Without overflow the Rasterizer is left as the line_to of the other
\* specifications leaves it.
C26_SameAsLineTo ==
    (sys = "cells" /\ cellwalk.pc = "done" /\ ~cellwalk.overflow
        /\ cellwalk.to.x < NearCells * ONE_PIXEL /\ cellwalk.to.y < NearCells * ONE_PIXEL
        /\ cellwalk.from.x < NearCells * ONE_PIXEL /\ cellwalk.from.y < NearCells * ONE_PIXEL) =>
        cellwalk.r = ras_line_to(LineNew(cellwalk.checked, cellwalk.r.xmax, cellwalk.r.ymax,
                                         cellwalk.from, cellwalk.to).r,
                                 cellwalk.to)

\* C27 as stated: for end points with pixel coordinates in [0, 32767] no
\* value line_to computes leaves the i32 range: not the cross product
\* dx * fy1 - dy * fx1, not its sums with dx * ONE_PIXEL and dy * ONE_PIXEL,
\* not cover and area; there is no overflow panic and no wrapped value.
C27_Stated ==
    (sys = "cells" /\ LineInRange(cellwalk)) =>
        ~cellwalk.overflow /\ cellwalk.pc # "panic"

\* Built with overflow checks, line_to has panicked on a line whose end
\* points are in the range.
C27_Witness ==
    /\ sys = "cells"
    /\ LineInRange(cellwalk)
    /\ cellwalk.checked
    /\ cellwalk.pc = "panic"

\* For end points with pixel coordinates in [0, 16383] no value leaves
\* the i32 range.
C27_Within ==
    (sys = "cells" /\ LineInHalfRange(cellwalk)) =>
        ~cellwalk.overflow /\ cellwalk.pc # "panic"

\* The walk of a line across half the range has ended.
C27_HalfDone ==
    ~(sys = "cells" /\ cellwalk.pc = "done" /\ cellwalk.steps = 2 * 16383
      /\ LineInHalfRange(cellwalk))

(***************************************************************************)
(* C28: the writes of the row loop.                                        *)
(***************************************************************************)
\* the row a write goes to
WriteRow(w, pitch, h, y_up) ==
    IF y_up THEN h - 1 - (w.row_offset \div pitch) ELSE w.row_offset \div pitch

\* a write stays in a row of the target and between its left and right edge
WriteInside(w, pitch, width, h) ==
    /\ \E r \in 0..(h - 1) : w.row_offset = pitch * r
    /\ 0 <= w.xi
    /\ 0 <= w.count
    /\ w.xi + w.count <= width
    /\ \A k \in 0..(w.count - 1) : w.row_offset + w.xi + k < pitch * h

WritesInside(ws, pitch, width, h, y_up) ==
    /\ \A k \in DOMAIN ws : WriteInside(ws[k], pitch, width, h)
    /\ \A j, k \in DOMAIN ws :
          j < k => WriteRow(ws[j], pitch, h, y_up) <= WriteRow(ws[k], pitch, h, y_up)

\* the pitches of the rows of a target of the given width: tightly packed
\* and with a byte to spare
PitchesOf(width) == {width, width + 1}

\* C28: every write of the row loop of rasterize and rasterize_write goes to
\* a row r of the target, at pitch * r or, when y_up, pitch * (h - 1 - r),
\* and to columns within [0, w); rows come in increasing y; so no write
\* leaves a buffer of pitch * h bytes with pitch >= w.
C28_WritesInside ==
    (sys \in {"raster", "clip"} /\ rasPc = "idle" /\ rasCalls > 0) =>
        \A pitch \in PitchesOf(rasArgs.w) :
            WritesInside(emit_rows(ras, rasArgs.fill, pitch, rasArgs.y_up, 0),
                         pitch, rasArgs.w, rasArgs.h, rasArgs.y_up)

\* rasterize has written two rows of a target that grows upwards, with a
\* cell in column -1 in its storage and a run up to the right edge.
C28_Witness ==
    /\ sys = "clip" /\ rasPc = "idle" /\ rasCalls > 0
    /\ rasArgs.y_up /\ rasArgs.h = 2 /\ rasArgs.w = 2
    /\ \E k \in DOMAIN ras.storage.cells : ras.storage.cells[k].x = -1
    /\ LET ws == emit_rows(ras, rasArgs.fill, rasArgs.w, TRUE, 0)
       IN  /\ \E k \in DOMAIN ws : ws[k].row_offset = 0
           /\ \E k \in DOMAIN ws : ws[k].row_offset = rasArgs.w
           /\ \E k \in DOMAIN ws : ws[k].count >= 1 /\ ws[k].xi + ws[k].count = rasArgs.w

(***************************************************************************)
(* C29.  Dashing terminates: for every dash array validate_dashes accepts, *)
(* every offset and every finite subpath the loop of Stroker::dash gets    *)
(* Done or Stroke after finitely many Dasher::next calls, and get_signed   *)
(* is never called with an index outside the segments.                     *)
(***************************************************************************)
\* The indexes get_signed takes for these segments
SignedIndexes(segments) == (-Len(segments))..(Len(segments) - 1)

\* A run whose Dasher has come back to a state it was in: its loop has no end
DashingRecurs == dashing.pc = "again"

\* C29 as stated: no run of the loop of Stroker::dash goes round for ever.
\* It fails: on a line longer than 2^24 with dashes [1., 1.] the sum
\* dash + start_offset of next_segments is start_offset again once
\* start_offset is 2^24, so that Emit and Continue alternate with the
\* Dasher where it was.
C29_Stated == sys = "dash" => ~DashingRecurs

\* The run that goes round: accepted dashes, one finite line, the Dasher
\* at 2^24 along it (2^25 halves) and short of its end, back where it was.
C29_Witness ==
    /\ sys = "dash"
    /\ DashingRecurs
    /\ dashing.dashes = <<2, 2>>
    /\ Len(dashing.segments) = 1
    /\ dashing.d.t0_offset = 2 * F32_EXACT
    /\ dashing.d.t0_offset < FarLength
    /\ dashing.op \in {"Emit", "Continue"}
    /\ ~dashing.d.done

\* C29, the runs on short subpaths: each gets Done or Stroke, within 40
\* calls, for every accepted dash array and offset of the model.
C29_Elsewhere ==
    (sys = "dash" /\ dashing.kind = "near") =>
        /\ ~DashingRecurs
        /\ dashing.pc = "loop" => dashing.steps < 40

\* C29, get_signed: the Dasher's cur, which next_segments starts from, and
\* the range handed to dash_segments are indexes of the segments.
C29_SignedInRange ==
    (sys = "dash" /\ dashing.pc # "off") =>
        /\ dashing.d.cur \in SignedIndexes(dashing.segments)
        /\ dashing.op = "Emit" =>
              /\ dashing.d.range[1] <= dashing.d.range[2]
              /\ dashing.d.range[1] \in SignedIndexes(dashing.segments)
              /\ dashing.d.range[2] \in 0..(Len(dashing.segments) - 1)

\* The long run is where the model takes it up: up to 2^24 calls the
\* Dasher after k calls is DasherAfter(k).
C29_FarAsCounted ==
    (sys = "dash" /\ dashing.kind = "far" /\ dashing.pc = "loop"
        /\ dashing.calls >= 1 /\ dashing.calls <= F32_EXACT)
    => dashing.d = DasherAfter(dashing.calls)

(***************************************************************************)
(* C30.  Smooth curves in the SVG parser: the first control point of the   *)
(* CurveTo of an S/s, written or repeated, is the previous command's       *)
(* second control point reflected about the current point if and only if   *)
(* the previous command was C, c, S or s, and else the current point; the  *)
(* same for the QuadTo of a T/t after Q, q, T or t.                        *)
(***************************************************************************)
CurveLetters == {"C", "c", "S", "s"}
QuadLetters == {"Q", "q", "T", "t"}

\* the control point the statement gives the last yield, an S/s or a T/t
StatedControl(last, prev) ==
    IF last.letter \in {"S", "s"}
    THEN IF prev.letter \in CurveLetters
         THEN Reflected(last.cur, prev.out.c2) ELSE last.cur
    ELSE IF prev.letter \in QuadLetters
         THEN Reflected(last.cur, prev.out.c) ELSE last.cur

\* the control point the last yield has: c1 of a CurveTo, c of a QuadTo
YieldedControl(last) == IF last.out.op = "CurveTo" THEN last.out.c1 ELSE last.out.c

IsSmooth(last) == last.letter \in {"S", "s", "T", "t"}

\* C30 as stated.  It fails both ways: parse sets last_cmd from the byte
\* the call starts at, which is the letter of the command itself when the
\* letter is written and a digit when the command is repeated.
C30_Stated ==
    (sys = "smooth" /\ svgPts.count > 0 /\ IsSmooth(svgPts.last)) =>
        YieldedControl(svgPts.last) = StatedControl(svgPts.last, svgPts.prev)

\* "L1 2 S7 5 3 1": the S after an L has the reflection of last_control,
\* still (0, 0), about the current point (1, 2) for its first control point.
C30_Witness ==
    /\ sys = "smooth" /\ svgPts.count = 2
    /\ svgPts.last.letter = "S" /\ svgPts.last.explicit
    /\ svgPts.prev.letter = "L"
    /\ svgPts.last.cur = Point(1, 2)
    /\ svgPts.last.out = CurveTo(Point(2, 4), Point(7, 5), Point(3, 1))

\* "S1 2 3 4 7 5 3 1": the repeated S has the current point for its first
\* control point, not the reflection of (1, 2) about (3, 4).
C30_RepeatedWitness ==
    /\ sys = "smooth" /\ svgPts.count = 2
    /\ svgPts.last.letter = "S" /\ ~svgPts.last.explicit
    /\ svgPts.prev.letter = "S" /\ svgPts.prev.out.c2 = Point(1, 2)
    /\ svgPts.last.out = CurveTo(Point(3, 4), Point(7, 5), Point(3, 1))

\* What parse does: a written S, s, T or t that is not the first command
\* reflects last_control, whichever command came before; a repeated one and
\* the first command take the current point.
C30_AsCoded ==
    (sys = "smooth" /\ svgPts.count > 0 /\ IsSmooth(svgPts.last)) =>
        YieldedControl(svgPts.last) =
            IF svgPts.last.explicit /\ svgPts.count > 1
            THEN Reflected(svgPts.last.cur, svgPts.last.old)
            ELSE svgPts.last.cur

\* C30 holds for a written S/s after C, c, S, s, a written T/t after Q, q,
\* T, t, and for the first command.
C30_Elsewhere ==
    (sys = "smooth" /\ svgPts.count > 0 /\ IsSmooth(svgPts.last)
        /\ svgPts.last.explicit
        /\ \/ svgPts.count = 1
           \/ svgPts.last.letter \in {"S", "s"} /\ svgPts.prev.letter \in CurveLetters
           \/ svgPts.last.letter \in {"T", "t"} /\ svgPts.prev.letter \in QuadLetters)
    => YieldedControl(svgPts.last) = StatedControl(svgPts.last, svgPts.prev)

====
